---- MODULE Spec2Model ----
(***************************************************************************)
(* CESMD V2 file converter: the V2 decoding engine.                        *)
(*                                                                         *)
(*   src/cesmd_converter/parser.py   parse_v2_file (module function)       *)
(*   src/converter.py                CESMDConverter.parse_v2_file (method) *)
(*                                                                         *)
(* Text is modelled at character level where the code slices it (the       *)
(* fixed-width decoder, float()), as tuples of one-character strings.      *)
(* Python's None is an option record [some |-> FALSE, ...]; a None line    *)
(* index is NoLine.  Floats are fixed-point integers with Scale units per  *)
(* 1.0 (four decimal places).                                              *)
(***************************************************************************)
EXTENDS Integers, Sequences, FiniteSets, TLC

VARIABLES
    cellsIn,    \* SpecDecode: the 10-character cells of the data line under test
    tailIn,     \* SpecDecode: what follows the last cell (ends with "\n")
    decoded,    \* SpecDecode: values decoded from the block around that line
    dpc,        \* SpecDecode: "ready" before the decode, "done" after
    content,    \* the lines of the file given to the most recent parse call
    op,         \* the most recent operation: "init", "new", "parser", "conv"
    record,     \* outcome of the most recent parser.parse_v2_file call
    self,       \* the fields of the CESMDConverter instance
    ret,        \* return value of the most recent CESMDConverter.parse_v2_file
    calls,      \* number of parse calls made so far
    sfile,      \* SpecSplit: the input file of the channel splitter
    multi,      \* SpecSplit: result of has_multiple_channels ("none" before)
    outputs,    \* SpecSplit: output_filepaths, as the channel numbers in the names
    blocks,     \* SpecSplit: the channel_block of each loop iteration, in order
    disk,       \* SpecSplit: the files <stem>_chan_<n>.V2 on disk, by n
    wrote,      \* SpecSplit: how the write of each block went
    spc,        \* SpecSplit: "ready", "checked", "split"
    v2_files,       \* SpecBatch: the files found by glob, in order
    output_format,  \* SpecBatch: "csv", "mat" or "h5"
    bi,             \* SpecBatch: number of files the loop has gone through
    success_count,  \* SpecBatch
    error_count,    \* SpecBatch
    status,         \* SpecBatch: "idle", "processing", "no_v2_files",
                    \*            "completed", "completed_with_errors"
    log,            \* SpecBatch: what each iteration of the loop did
    out,            \* SpecBatch: an export of a WaveformRecord with exporters.py
    metadata,   \* SpecMetadata: a Metadata object, [known, extras]
    got,        \* SpecMetadata: the most recent metadata.get(key, default)
    nsets,      \* SpecMetadata: number of item assignments made so far
    threads,    \* SpecThreads: the convert_files threads, by thread number
    openFiles   \* SpecThreads: <<path, t>> when thread t has path open for writing

decodeVars == <<cellsIn, tailIn, decoded, dpc>>
parseVars == <<content, op, record, self, ret, calls>>
splitVars == <<sfile, multi, outputs, blocks, disk, wrote, spc>>
batchVars ==
    <<v2_files, output_format, bi, success_count, error_count, status, log, out>>
metadataVars == <<metadata, got, nsets>>
threadVars == <<threads, openFiles>>
vars == <<decodeVars, parseVars, splitVars, batchVars, metadataVars, threadVars>>

(***************************************************************************)
(* Bounds of the model.                                                    *)
(***************************************************************************)
MaxCells == 2      \* cells per generated data line (SpecDecode)
MaxBody == 3       \* lines per generated file body (SpecParser)
MaxData == 1       \* data lines per section of an instance-reuse file (Spec)
MaxCalls == 2      \* parse calls per behaviour (Spec)
MaxLines == 3      \* lines per generated multi-channel file (SpecSplit)
MaxFiles == 2      \* files per batch (SpecBatch)
MaxSets == 2       \* item assignments on a Metadata object (SpecMetadata)
MaxThreads == 2    \* convert_files threads started by start_conversion (SpecThreads)

(***************************************************************************)
(* Program constants.                                                      *)
(***************************************************************************)
HeaderLines == 30  \* content[:30]
ColWidth == 10     \* line[10*j : 10*(j+1)]
MaxCols == 8       \* range(8)
MinSlice == 3      \* len(slice) > 3
MultiThreshold == 2 \* count > 2

Scale == 100 * 100
NoLine == 0 - 1

Min(a, b) == IF a < b THEN a ELSE b

Rep(c, n) == [i \in 1..n |-> c]

(***************************************************************************)
(* Python's float(text) on the alphabet digits . - + space newline x.      *)
(***************************************************************************)
DigitChars == <<"0", "1", "2", "3", "4", "5", "6", "7", "8", "9">>
Digits == {DigitChars[i] : i \in 1..Len(DigitChars)}
DigitVal(c) == (CHOOSE i \in 1..Len(DigitChars) : DigitChars[i] = c) - 1
IsSpace(c) == c \in {" ", "\n"}

\* s[a:b] of Python (0-based, end exclusive, clipped to the length of s)
Slice(s, a, b) == SubSeq(s, a + 1, Min(b, Len(s)))

\* str.strip(): float() ignores leading and trailing whitespace
Strip(s) ==
    LET idx == {i \in 1..Len(s) : ~IsSpace(s[i])}
    IN  IF idx = {} THEN <<>>
        ELSE SubSeq(s, CHOOSE i \in idx : \A k \in idx : i <= k,
                       CHOOSE i \in idx : \A k \in idx : i >= k)

Unsigned(t) == IF t # <<>> /\ t[1] \in {"-", "+"} THEN Tail(t) ELSE t

\* float(s) succeeds: [sign] digits [. [digits]] or [sign] . digits
IsFloat(s) ==
    LET u == Unsigned(Strip(s))
    IN  /\ \A i \in 1..Len(u) : u[i] \in Digits \cup {"."}
        /\ Cardinality({i \in 1..Len(u) : u[i] = "."}) <= 1
        /\ \E i \in 1..Len(u) : u[i] \in Digits

RECURSIVE DigitsVal(_)
DigitsVal(u) ==
    IF u = <<>> THEN 0
    ELSE 10 * DigitsVal(SubSeq(u, 1, Len(u) - 1)) + DigitVal(u[Len(u)])

\* the four fraction digits of a fixed-point value
FracVal(f) == DigitsVal(SubSeq(f \o <<"0", "0", "0", "0">>, 1, 4))

\* float(s) as a fixed-point integer (only where IsFloat(s))
FloatVal(s) ==
    LET t == Strip(s)
        u == Unsigned(t)
        dots == {i \in 1..Len(u) : u[i] = "."}
        d == IF dots = {} THEN Len(u) + 1 ELSE CHOOSE i \in dots : TRUE
        mag == Scale * DigitsVal(SubSeq(u, 1, d - 1))
               + FracVal(SubSeq(u, d + 1, Len(u)))
    IN  IF t # <<>> /\ t[1] = "-" THEN 0 - mag ELSE mag

(***************************************************************************)
(* FixedWidthSeriesDecoder: one line, then a range of lines.               *)
(***************************************************************************)
\* every column that holds any character at all
AttemptedAnyLength(line) ==
    {j \in 0..(MaxCols - 1) : Len(Slice(line, ColWidth * j, ColWidth * (j + 1))) > 0}

\* the columns j for which len(line[10*j:10+10*j]) > 3
Attempted(line) ==
    {j \in 0..(MaxCols - 1) :
        Len(Slice(line, ColWidth * j, ColWidth * (j + 1))) > MinSlice}

RECURSIVE ColumnValues(_, _)
ColumnValues(line, j) ==
    IF j >= MaxCols THEN <<>>
    ELSE IF j \in Attempted(line)
         THEN <<FloatVal(Slice(line, ColWidth * j, ColWidth * (j + 1)))>>
              \o ColumnValues(line, j + 1)
         ELSE ColumnValues(line, j + 1)

\* what the plausible per-column tolerance would do: skip the bad column only
RECURSIVE ColumnValuesLenient(_, _)
ColumnValuesLenient(line, j) ==
    IF j >= MaxCols THEN <<>>
    ELSE IF j \in Attempted(line)
            /\ IsFloat(Slice(line, ColWidth * j, ColWidth * (j + 1)))
         THEN <<FloatVal(Slice(line, ColWidth * j, ColWidth * (j + 1)))>>
              \o ColumnValuesLenient(line, j + 1)
         ELSE ColumnValuesLenient(line, j + 1)

DecodeLineLenient(line) == ColumnValuesLenient(line, 0)

\* try: values = [float(...) for j in range(8) if len(...) > 3]; extend
\* except ValueError: pass      -- the values this line adds to the series
DecodeLine(line) ==
    IF \A j \in Attempted(line) :
          IsFloat(Slice(line, ColWidth * j, ColWidth * (j + 1)))
    THEN ColumnValues(line, 0)
    ELSE <<>>

\* for i in range(start, end): ... over content (0-based line indices); the
\* loop over a range is the loop over its first half, then over its second
RECURSIVE DecodeSection(_, _, _)
DecodeSection(lines, start, end) ==
    IF start >= end THEN <<>>
    ELSE IF end = start + 1 THEN DecodeLine(lines[start + 1].text)
    ELSE DecodeSection(lines, start, (start + end) \div 2)
         \o DecodeSection(lines, (start + end) \div 2, end)


(***************************************************************************)
(* Data lines of the decoder specification: cells of ColWidth characters   *)
(* followed by a tail.  CellValue and TailValues give, independently of    *)
(* the decoder, the numbers the text was written from.                     *)
(***************************************************************************)
CellText(c) ==
    CASE c = "n1" -> Rep(" ", 4) \o <<"1", ".", "2", "3", "4", "5">>
      [] c = "n2" -> Rep(" ", 4) \o <<"-", "2", ".", "3", "4", "1">>
      [] c = "n3" -> Rep(" ", 4) \o <<"0", ".", "0", "0", "1", "2">>
      [] c = "blank" -> Rep(" ", 10)
      [] c = "stray" -> Rep(" ", 6) \o <<"x">> \o Rep(" ", 3)
      \* the unaligned text "  1.2345  -2.341   0.0012" cut every 10 characters
      [] c = "u1" -> Rep(" ", 2) \o <<"1", ".", "2", "3", "4", "5">> \o Rep(" ", 2)
      [] c = "u2" -> <<"-", "2", ".", "3", "4", "1">> \o Rep(" ", 3) \o <<"0">>

CellValue(c) ==
    CASE c \in {"n1", "u1"} -> 12345
      [] c = "n2" -> 0 - 23410
      [] c = "n3" -> 12

NumericCells == {"n1", "n2", "n3"}
Convertible == NumericCells \cup {"u1"}
Cells == NumericCells \cup {"blank", "stray"}

TailText(t) ==
    CASE t = "nl" -> <<"\n">>
      [] t = "short3" -> Rep(" ", 2) \o <<"\n">>
      [] t = "blank4" -> Rep(" ", 3) \o <<"\n">>
      [] t = "val7" -> Rep(" ", 3) \o <<"1", ".", "5", "\n">>
      [] t = "u3" -> <<".", "0", "0", "1", "2", "\n">>

\* the values a tail carries; a tail of at most MinSlice characters is not read
TailValues(t) ==
    CASE t = "val7" -> <<15000>>
      [] t = "u3" -> <<12>>
      [] OTHER -> <<>>
Tails == {"nl", "short3", "blank4", "val7"}
ShortTails == {"nl", "short3"}

RECURSIVE CellsText(_)
CellsText(cs) == IF cs = <<>> THEN <<>> ELSE CellText(Head(cs)) \o CellsText(Tail(cs))

Render(cs, t) == CellsText(cs) \o TailText(t)

RECURSIVE SeqsUpTo(_, _)
SeqsUpTo(S, n) ==
    IF n = 0 THEN {<<>>}
    ELSE LET shorter == SeqsUpTo(S, n - 1)
         IN  shorter \cup {Append(q, x) : q \in {r \in shorter : Len(r) = n - 1}, x \in S}

NineCells == Rep("n1", MaxCols + 1)
UnalignedCells == <<"u1", "u2">>

TextLine(t) == [kind |-> "data", cap |-> <<>>, text |-> t]

\* the line under test between two well-formed lines
Block(cs, t) ==
    <<TextLine(Render(<<"n3">>, "nl")), TextLine(Render(cs, t)),
      TextLine(Render(<<"n1">>, "val7"))>>
BlockBefore == <<12>>
BlockAfter == <<12345, 15000>>

(***************************************************************************)
(* Lines of a file.  kind records which of the code's patterns the line    *)
(* matches (re.search on the header patterns, "in lower_line" on the       *)
(* section markers); cap is the text captured by the pattern's numeric     *)
(* group (<<>> when only the trigger phrase matches); text is the line as  *)
(* the fixed-width decoder sees it.                                        *)
(***************************************************************************)
WordsText == Rep("x", 12) \o <<"\n">>
Line(k, c) == [kind |-> k, cap |-> c, text |-> WordsText]

RECURSIVE NumChars(_)
NumChars(n) ==
    IF n < 10 THEN <<DigitChars[n + 1]>>
    ELSE NumChars(n \div 10) \o <<DigitChars[(n % 10) + 1]>>

\* a data line holding the single value n, right-aligned in the first column
DataLine(n) ==
    TextLine(Rep(" ", ColWidth - Len(NumChars(n))) \o NumChars(n) \o <<"\n">>)

MarkerKinds == {"accel", "veloc", "displ", "end"}
StampKinds == {"rcrd", "quake", "rcrd_quake", "start", "origin", "start_origin"}

(***************************************************************************)
(* Option values.                                                          *)
(***************************************************************************)
NoneS == [some |-> FALSE, v |-> ""]
NoneN == [some |-> FALSE, v |-> 0]
NoneA == [some |-> FALSE, v |-> <<>>]
Some(x) == [some |-> TRUE, v |-> x]

(***************************************************************************)
(* HeaderMetadataExtractor of parser.py.  The state threaded through the   *)
(* header lines is the Metadata, the local sampling_rate and the exception *)
(* raised so far ("none" while none was).                                  *)
(***************************************************************************)
\* Metadata.from_filepath: every known field None
MetaInit ==
    [utc_time |-> NoneS, observation_time |-> NoneS, obs_timezone |-> NoneS,
     obs_second |-> NoneN, utc_year |-> NoneN, channel_number |-> NoneN,
     latitude |-> NoneN, longitude |-> NoneN,
     sampling_rate |-> NoneN, time_interval |-> NoneN, peak_acceleration |-> NoneN]

HeaderInit == [md |-> MetaInit, sr |-> NoneN, err |-> "none"]

\* float(m.group(1)) of a header pattern: ValueError unless the text is a number
CapError(cap) == IF IsFloat(cap) THEN "none" ELSE "ValueError"

\* interval = float(...); sampling_rate = 1.0 / interval
IntervalError(cap) ==
    IF ~IsFloat(cap) THEN "ValueError"
    ELSE IF FloatVal(cap) = 0 THEN "ZeroDivisionError" ELSE "none"

Reciprocal(x) == (Scale * Scale) \div x

\* chan_match: metadata["channel_number"] = int(chan_match.group(1))
ChanMatch(line) == line.kind = "chanhdr"

Channel(h, line) ==
    IF ChanMatch(line)
    THEN [h EXCEPT !.md.channel_number = Some(DigitsVal(line.cap))] ELSE h

\* date_match: "Rcrd of ..." or "Record of ..." with its seconds (sec);
\* earth_match: "Earthquake of ... <ZONE>" with optional seconds (qsec, <<>>
\* when the group is None); a line may hold both forms
RcrdMatch(line) == line.kind \in {"rcrd", "rcrd_quake"}
QuakeMatch(line) == line.kind \in {"quake", "rcrd_quake"}

\* str.upper() on a time-zone abbreviation
ZoneUpper(z) ==
    CASE z \in {"pst", "Pst"} -> "PST" [] z = "gmt" -> "GMT" [] OTHER -> z

\* if date_match: ... else: earth_match = ...; if earth_match: ...
ObservationTime(h, line) ==
    IF RcrdMatch(line)
    THEN [h EXCEPT !.md.observation_time = Some("rcrd"),
                   !.md.obs_second = Some(FloatVal(line.sec))]
    ELSE IF QuakeMatch(line)
    THEN [h EXCEPT !.md.observation_time = Some("quake"),
                   !.md.obs_second = Some(IF line.qsec = <<>> THEN 0
                                          ELSE FloatVal(line.qsec)),
                   !.md.obs_timezone = Some(ZoneUpper(line.zone))]
    ELSE h

\* the narrower date pattern: "Rcrd of ..." only
ConverterObservationTime(h, line) ==
    IF RcrdMatch(line) /\ line.word = "Rcrd"
    THEN [h EXCEPT !.md.observation_time = Some("rcrd"),
                   !.md.obs_second = Some(FloatVal(line.sec))]
    ELSE h

\* the year of a Start-time or ORIGIN field: every year is read as written
FullYearAsWritten(year_text) == DigitsVal(year_text)

\* full_year: a two-digit year is 19yy from 90 on and 20yy below
FullYear(year_text) ==
    IF Len(year_text) = 2
    THEN (IF DigitsVal(year_text) >= 90 THEN 1900 + DigitsVal(year_text)
          ELSE 2000 + DigitsVal(year_text))
    ELSE DigitsVal(year_text)

\* utc_match and origin_match; a line may hold both fields, and then ocap is
\* the year captured by the ORIGIN pattern.  form is how the Start-time
\* field is written: "full" (seconds and UTC), "nosec" (no seconds) or
\* "gmt" (GMT for UTC)
StartMatch(line) == line.kind \in {"start", "start_origin"}

\* the narrower pattern: the seconds and "UTC" are required
ConverterStartMatch(line) == StartMatch(line) /\ line.form = "full"
OriginMatch(line) == line.kind \in {"origin", "start_origin"}
OriginCap(line) == IF line.kind = "start_origin" THEN line.ocap ELSE line.cap

\* if utc_match: ...
StartTime(h, line) ==
    IF StartMatch(line)
    THEN [h EXCEPT !.md.utc_time = Some("start"),
                   !.md.utc_year = Some(FullYear(line.cap))]
    ELSE h

\* if utc_match: ... with the narrower pattern
ConverterStartTime(h, line) ==
    IF ConverterStartMatch(line)
    THEN [h EXCEPT !.md.utc_time = Some("start"),
                   !.md.utc_year = Some(FullYear(line.cap))]
    ELSE h

\* the ORIGIN field is taken whatever was found before
OriginAppliesAlways(md) == TRUE

\* not metadata.get("utc_time")
OriginApplies(md) == ~md.utc_time.some

\* if origin_match and not metadata.get("utc_time"): ...
OriginTime(h, line) ==
    IF OriginMatch(line) /\ OriginApplies(h.md)
    THEN [h EXCEPT !.md.utc_time = Some("origin"),
                   !.md.utc_year = Some(FullYear(OriginCap(line)))]
    ELSE h

\* the letters of the station pattern under re.IGNORECASE
Upper(c) ==
    CASE c = "n" -> "N" [] c = "s" -> "S" [] c = "e" -> "E" [] c = "w" -> "W"
      [] OTHER -> c

\* station_info: Station No. <id> <lat>[NS], <lon>[EW], case-insensitive
StationMatch(line) ==
    /\ line.kind = "station"
    /\ Upper(line.ns) \in {"N", "S"}
    /\ Upper(line.ew) \in {"E", "W"}

\* the sign of a coordinate when the hemisphere letter is compared folded
SignFolded(letter, positive) == IF Upper(letter) = positive THEN 1 ELSE 0 - 1

\* (1 if station_info.group(3) == "N" else -1), and likewise with "E"
Sign(letter, positive) == IF letter = positive THEN 1 ELSE 0 - 1

\* metadata["latitude"], metadata["longitude"]
Station(h, line) ==
    IF ~StationMatch(line) THEN h
    ELSE IF CapError(line.lat) # "none" THEN [h EXCEPT !.err = CapError(line.lat)]
    ELSE IF CapError(line.lon) # "none" THEN [h EXCEPT !.err = CapError(line.lon)]
    ELSE [h EXCEPT !.md.latitude = Some(FloatVal(line.lat) * Sign(line.ns, "N")),
                   !.md.longitude = Some(FloatVal(line.lon) * Sign(line.ew, "E"))]

\* the body of "for line in content[:30]" for one line
HeaderLine(h, line) ==
    CASE line.kind = "chanhdr" -> Channel(h, line)
      [] RcrdMatch(line) \/ QuakeMatch(line) -> ObservationTime(h, line)
      [] StartMatch(line) \/ OriginMatch(line) ->
            OriginTime(StartTime(h, line), line)
      [] line.kind = "station" -> Station(h, line)
      [] line.kind = "interval" /\ line.cap # <<>> ->
            IF IntervalError(line.cap) # "none"
            THEN [h EXCEPT !.err = IntervalError(line.cap)]
            ELSE [h EXCEPT !.sr = Some(Reciprocal(FloatVal(line.cap))),
                           !.md.sampling_rate = Some(Reciprocal(FloatVal(line.cap))),
                           !.md.time_interval = Some(FloatVal(line.cap))]
      [] line.kind = "peak_acc" /\ line.cap # <<>> ->
            IF CapError(line.cap) # "none"
            THEN [h EXCEPT !.err = CapError(line.cap)]
            ELSE [h EXCEPT !.md.peak_acceleration = Some(FloatVal(line.cap))]
      [] OTHER -> h

\* for line in content[:30], over the line indices [lo, hi), stopping at the
\* first exception
RECURSIVE ScanHeader(_, _, _, _)
ScanHeader(h, lines, lo, hi) ==
    IF lo >= hi \/ h.err # "none" THEN h
    ELSE IF hi = lo + 1 THEN HeaderLine(h, lines[lo + 1])
    ELSE LET first == ScanHeader(h, lines, lo, (lo + hi) \div 2)
         IN  IF first.err # "none" THEN first
             ELSE ScanHeader(first, lines, (lo + hi) \div 2, hi)

(***************************************************************************)
(* DataSectionLocator: the four marker variables after the scan of every   *)
(* line (a later marker of a kind replaces an earlier one).                *)
(***************************************************************************)
LocInit == [accel |-> NoLine, veloc |-> NoLine, displ |-> NoLine, end |-> NoLine]

LocateLine(loc, line, i) ==
    CASE line.kind = "accel" -> [loc EXCEPT !.accel = i + 1]
      [] line.kind = "veloc" -> [loc EXCEPT !.veloc = i + 1]
      [] line.kind = "displ" -> [loc EXCEPT !.displ = i + 1]
      [] line.kind = "end" -> [loc EXCEPT !.end = i]
      [] OTHER -> loc

\* assignments made later in the loop replace those made earlier
LaterWins(early, late) ==
    [accel |-> IF late.accel # NoLine THEN late.accel ELSE early.accel,
     veloc |-> IF late.veloc # NoLine THEN late.veloc ELSE early.veloc,
     displ |-> IF late.displ # NoLine THEN late.displ ELSE early.displ,
     end |-> IF late.end # NoLine THEN late.end ELSE early.end]

\* for i, line in enumerate(content), over the line indices [lo, hi)
RECURSIVE Locate(_, _, _)
Locate(lines, lo, hi) ==
    IF lo >= hi THEN LocInit
    ELSE IF hi = lo + 1 THEN LocateLine(LocInit, lines[lo + 1], lo)
    ELSE LaterWins(Locate(lines, lo, (lo + hi) \div 2),
                   Locate(lines, (lo + hi) \div 2, hi))

\* Python truthiness of a line index: neither None nor 0
Truthy(x) == x # NoLine /\ x # 0

\* every section runs to the end-of-data line
SectionEndsAtEndOfData(loc) == [accel |-> loc.end, veloc |-> loc.end, displ |-> loc.end]

\* accel_end_line, velocity_end_line, displ_end_line
SectionEnds(loc) ==
    [accel |-> IF Truthy(loc.veloc) THEN loc.veloc - 1 ELSE loc.end,
     veloc |-> IF Truthy(loc.displ) THEN loc.displ - 1 ELSE loc.end,
     displ |-> loc.end]

(***************************************************************************)
(* TimeAxisSynthesizer: np.arange(0, n * dt, dt)[:n].  arange yields       *)
(* ceil((stop - start) / step) elements; the float product n * dt is off   *)
(* from the exact one by a rounding error e, which is 0 when n = 0.        *)
(***************************************************************************)
ArangeErrors == {0 - 1, 0, 1}

Arange(stop, step) ==
    LET len == IF stop <= 0 THEN 0 ELSE (stop + step - 1) \div step
    IN  [i \in 1..len |-> (i - 1) * step]

TimeAxisUntruncated(sr, n, e) ==
    Arange(n * Reciprocal(sr) + (IF n = 0 THEN 0 ELSE e), Reciprocal(sr))

TimeAxis(sr, n, e) ==
    LET dt == Reciprocal(sr)
        arr == Arange(n * dt + (IF n = 0 THEN 0 ELSE e), dt)
    IN  SubSeq(arr, 1, Min(n, Len(arr)))

(***************************************************************************)
(* RecordAssembler of parser.py: parse_v2_file on the lines of a file.     *)
(* status is "record" when a WaveformRecord is returned and otherwise the  *)
(* exception that leaves the function.  loc and ends expose the locals     *)
(* accel_start_line .. displ_end_line of a returned record.                *)
(***************************************************************************)
Raise(exc) ==
    [status |-> exc, time |-> NoneA, acceleration |-> NoneA, velocity |-> NoneA,
     displacement |-> NoneA, metadata |-> MetaInit, loc |-> LocInit,
     ends |-> [accel |-> NoLine, veloc |-> NoLine, displ |-> NoLine]]

HasStamp(md) == md.utc_time.some \/ md.observation_time.some

\* the optional velocity / displacement section
OptionalSection(lines, start, end) ==
    IF Truthy(start) /\ Truthy(end) THEN Some(DecodeSection(lines, start, end))
    ELSE NoneA

TimeOfAlways(sr, n, e) ==
    IF sr.some THEN Some(TimeAxis(sr.v, n, e)) ELSE Some(TimeAxis(Scale, n, e))

\* time_array = None; if sampling_rate is not None: ...
TimeOf(sr, n, e) == IF sr.some THEN Some(TimeAxis(sr.v, n, e)) ELSE NoneA

ParseV2File(lines, e) ==
    LET h == ScanHeader(HeaderInit, lines, 0, Min(HeaderLines, Len(lines)))
        loc == Locate(lines, 0, Len(lines))
        ends == SectionEnds(loc)
    IN  IF h.err # "none" THEN Raise(h.err)
        ELSE IF ~HasStamp(h.md) THEN Raise("missing_timestamp")
        ELSE IF loc.accel = NoLine THEN Raise("missing_acceleration")
        ELSE IF ends.accel = NoLine THEN Raise("TypeError")
        ELSE LET acc == DecodeSection(lines, loc.accel, ends.accel)
             IN  [status |-> "record",
                  time |-> TimeOf(h.sr, Len(acc), e),
                  acceleration |-> Some(acc),
                  velocity |-> OptionalSection(lines, loc.veloc, ends.veloc),
                  displacement |-> OptionalSection(lines, loc.displ, ends.displ),
                  metadata |-> h.md, loc |-> loc, ends |-> ends]

(***************************************************************************)
(* CESMDConverter of converter.py: the instance and its parse_v2_file.     *)
(***************************************************************************)
\* __init__
ConverterInit ==
    [metadata |-> MetaInit, acceleration |-> NoneA, velocity |-> NoneA,
     displacement |-> NoneA, sampling_rate |-> NoneN, time_array |-> NoneA]

\* the narrower header patterns: no "Earthquake of" form, no ORIGIN fallback
ConverterHeaderLine(h, line) ==
    CASE line.kind = "chanhdr" -> Channel(h, line)
      [] RcrdMatch(line) -> ConverterObservationTime(h, line)
      [] StartMatch(line) -> ConverterStartTime(h, line)
      [] line.kind = "station" -> Station(h, line)
      [] line.kind = "interval" /\ line.cap # <<>> ->
            IF IntervalError(line.cap) # "none"
            THEN [h EXCEPT !.err = IntervalError(line.cap)]
            ELSE [h EXCEPT !.sr = Some(Reciprocal(FloatVal(line.cap))),
                           !.md.sampling_rate = Some(Reciprocal(FloatVal(line.cap))),
                           !.md.time_interval = Some(FloatVal(line.cap))]
      [] line.kind = "peak_acc" /\ line.cap # <<>> ->
            IF CapError(line.cap) # "none"
            THEN [h EXCEPT !.err = CapError(line.cap)]
            ELSE [h EXCEPT !.md.peak_acceleration = Some(FloatVal(line.cap))]
      [] OTHER -> h

RECURSIVE ConverterScanHeader(_, _, _, _)
ConverterScanHeader(h, lines, lo, hi) ==
    IF lo >= hi \/ h.err # "none" THEN h
    ELSE IF hi = lo + 1 THEN ConverterHeaderLine(h, lines[lo + 1])
    ELSE LET first == ConverterScanHeader(h, lines, lo, (lo + hi) \div 2)
         IN  IF first.err # "none" THEN first
             ELSE ConverterScanHeader(first, lines, (lo + hi) \div 2, hi)

\* the instance after the call, and the value the call returns
ConverterParse(s, lines, e) ==
    LET h == ConverterScanHeader(
                 [md |-> MetaInit, sr |-> s.sampling_rate, err |-> "none"],
                 lines, 0, Min(HeaderLines, Len(lines)))
        s1 == [s EXCEPT !.metadata = h.md, !.sampling_rate = h.sr]
        loc == Locate(lines, 0, Len(lines))
        ends == SectionEnds(loc)
    IN  IF \/ h.err # "none"
           \/ ~HasStamp(h.md)
           \/ loc.accel = NoLine
           \/ ends.accel = NoLine
        THEN [self |-> s1, ret |-> FALSE]
        ELSE LET acc == DecodeSection(lines, loc.accel, ends.accel)
             IN  [self |->
                    [s1 EXCEPT
                       !.acceleration = Some(acc),
                       !.velocity = OptionalSection(lines, loc.veloc, ends.veloc),
                       !.displacement = OptionalSection(lines, loc.displ, ends.displ),
                       !.time_array =
                           IF s1.sampling_rate.some
                           THEN Some(TimeAxis(s1.sampling_rate.v, Len(acc), e))
                           ELSE s1.time_array],
                  ret |-> TRUE]

(***************************************************************************)
(* Input files.  A file is a header followed by a body; a body is a        *)
(* sequence of section markers and data lines, and the data line at line   *)
(* index i holds the value i, so that a decoded series names the lines it  *)
(* was read from.                                                          *)
(***************************************************************************)
Interval01 == Line("interval", <<"0", ".", "0", "1">>)
Interval02 == Line("interval", <<".", "0", "2">>)
IntervalZero == Line("interval", <<"0">>)
IntervalDot == Line("interval", <<".">>)
IntervalTrigger == Line("interval", <<>>)
PeakGood == Line("peak_acc", <<"-", "1", ".", "5">>)
PeakDots == Line("peak_acc", <<"1", ".", "2", ".", "3">>)
PeakDash == Line("peak_acc", <<"-">>)
PeakTrigger == Line("peak_acc", <<>>)
Other == Line("other", <<>>)

\* the year texts (\d{2,4}) of the Start-time and ORIGIN fields
YearTexts ==
    {<<"9", "5">>, <<"0", "5">>, <<"9", "0">>, <<"8", "9">>, <<"0", "0">>,
     <<"0", "9", "5">>, <<"1", "9", "9", "5">>, <<"2", "0", "0", "5">>}
Year1994 == <<"1", "9", "9", "4">>

StartLineAs(y, form) ==
    [kind |-> "start", cap |-> y, text |-> WordsText, form |-> form]
StartLine(y) == StartLineAs(y, "full")
OriginLine(y) == Line("origin", y)
StartOriginLine(y, oy) ==
    [kind |-> "start_origin", cap |-> y, ocap |-> oy, text |-> WordsText,
     form |-> "full"]

\* "Rcrd of Mon Jan 17, 1994 04:31:<sec>" (word: Rcrd or Record) and
\* "Earthquake of Mon Jan 17, 1994 04:31[:<qsec>] <zone>"
RcrdLine(word, sec) ==
    [kind |-> "rcrd", cap |-> <<>>, text |-> WordsText, word |-> word, sec |-> sec]
QuakeLine(qsec, zone) ==
    [kind |-> "quake", cap |-> <<>>, text |-> WordsText, qsec |-> qsec, zone |-> zone]
RcrdQuakeLine(word, sec, qsec, zone) ==
    [kind |-> "rcrd_quake", cap |-> <<>>, text |-> WordsText,
     word |-> word, sec |-> sec, qsec |-> qsec, zone |-> zone]
Sec125 == <<"1", "2", ".", "5">>
Sec7 == <<"7">>
Sec31 == <<"3", "1", ".", "0">>

Stamp(k) ==
    CASE k = "start" -> StartLine(Year1994)
      [] k = "rcrd" -> RcrdLine("Rcrd", Sec125)
      [] k = "quake" -> QuakeLine(<<>>, "PST")
      [] k = "rcrd_quake" -> RcrdQuakeLine("Rcrd", Sec125, Sec31, "PST")
      [] k = "origin" -> OriginLine(Year1994)
      [] k = "start_origin" -> StartOriginLine(Year1994, <<"9", "3">>)
      [] OTHER -> Line(k, <<>>)

\* "Station No. 117 <lat><ns>, <lon><ew>"
StationLine(lat, ns, lon, ew) ==
    [kind |-> "station", cap |-> <<>>, text |-> WordsText,
     lat |-> lat, ns |-> ns, lon |-> lon, ew |-> ew]
Lat341 == <<"3", "4", ".", "1">>
Lon1182 == <<"1", "1", "8", ".", "2">>

MalformedFacts == {IntervalZero, IntervalDot, PeakDots, PeakDash}
FactLines ==
    {Interval01, IntervalTrigger, PeakGood, PeakTrigger} \cup MalformedFacts

Headers ==
    {st \o fa : st \in {<<>>} \cup {<<Stamp(k)>> : k \in StampKinds},
                fa \in {<<>>} \cup {<<f>> : f \in FactLines}}

BodySyms == MarkerKinds \cup {"data"}

MkFile(hdr, syms) ==
    hdr \o [k \in 1..Len(syms) |->
               IF syms[k] = "data" THEN DataLine(Len(hdr) + k - 1)
               ELSE Line(syms[k], <<>>)]

\* a header whose line of interest sits at line index k, after k - 1 others
Padded(first, k, l) == <<first>> \o Rep(Other, k - 1) \o <<l>>

CanonicalBody ==
    <<"accel", "data", "data", "veloc", "data", "data",
      "displ", "data", "data", "end">>

\* markers at lines 10 (accel), 40 (veloc) and 70 (end), data lines between
ExampleFile ==
    [k \in 1..71 |->
        CASE k - 1 = 0 -> Stamp("start")
          [] k - 1 = 10 -> Line("accel", <<>>)
          [] k - 1 = 40 -> Line("veloc", <<>>)
          [] k - 1 = 70 -> Line("end", <<>>)
          [] k - 1 \in 1..9 -> Other
          [] OTHER -> DataLine(k - 1)]

FixtureFiles ==
    {ExampleFile,
     MkFile(<<Stamp("start"), Interval01>>, CanonicalBody),
     MkFile(<<Stamp("rcrd"), Interval02, PeakGood>>, CanonicalBody)}
    \cup {MkFile(Padded(Other, k, Stamp(st)), <<"accel", "data", "end">>) :
             k \in {HeaderLines - 1, HeaderLines}, st \in StampKinds}
    \cup {MkFile(Padded(Stamp("start"), k, Interval01), <<"accel", "data", "end">>) :
             k \in {HeaderLines - 1, HeaderLines}}

\* headers of one or two UTC fields, in either order or on one line
StampLines ==
    {StartLine(y) : y \in YearTexts} \cup {OriginLine(y) : y \in YearTexts}
    \cup {StartOriginLine(<<"9", "5">>, <<"8", "9">>),
          StartOriginLine(<<"8", "9">>, <<"9", "5">>)}

StampFiles ==
    {MkFile(<<a>>, <<"accel", "data", "end">>) : a \in StampLines}
    \cup {MkFile(<<a, b>>, <<"accel", "data", "end">>) : a \in StampLines, b \in StampLines}

\* headers of one or two observation-time lines, in either order
ObsLines ==
    {RcrdLine("Rcrd", Sec125), RcrdLine("Record", Sec7),
     QuakeLine(<<>>, "PST"), QuakeLine(Sec31, "pst"), QuakeLine(<<>>, "gmt"),
     RcrdQuakeLine("Rcrd", Sec125, Sec31, "pst")}

ObsFiles ==
    {MkFile(<<a>>, <<"accel", "data", "end">>) : a \in ObsLines}
    \cup {MkFile(<<a, b>>, <<"accel", "data", "end">>) : a \in ObsLines, b \in ObsLines}

Files ==
    {MkFile(h, b) : h \in Headers, b \in SeqsUpTo(BodySyms, MaxBody)}
    \cup FixtureFiles \cup StampFiles \cup ObsFiles

\* the files given to an instance that is used for more than one call
ReuseHeaders ==
    {<<Stamp("start")>>, <<Stamp("start"), Interval01>>,
     <<Stamp("rcrd"), Interval02>>, <<Interval01>>}

ReuseBodies ==
    {<<"accel">> \o Rep("data", n) \o <<"end">> : n \in 0..MaxData}
    \cup {<<"accel", "data", "veloc", "data", "end">>, <<"accel", "data">>}

\* "Station No. 117 34.1N, 118.2W" and the same coordinates in other
\* hemispheres and in lower case
StationLines ==
    {StationLine(Lat341, "N", Lon1182, "W"), StationLine(Lat341, "n", Lon1182, "w"),
     StationLine(Lat341, "S", Lon1182, "E"), StationLine(Lat341, "s", Lon1182, "e")}

StationFiles ==
    {MkFile(<<Stamp("start"), st>>, <<"accel", "data", "end">>) : st \in StationLines}

ReuseFiles == {MkFile(h, b) : h \in ReuseHeaders, b \in ReuseBodies} \cup StationFiles

\* the files both parsers are given: headers of up to two lines among the
\* forms of the observation time and of the UTC time and the header facts
RefineLines ==
    ObsLines
    \cup {StartLine(<<"9", "5">>), StartLineAs(<<"8", "9">>, "nosec"),
          StartLineAs(<<"0", "5">>, "gmt"), OriginLine(<<"9", "0">>),
          Interval01, IntervalZero, PeakGood,
          StationLine(Lat341, "N", Lon1182, "W")}

RefineFiles ==
    {MkFile(h, b) : h \in {<<>>} \cup {<<a>> : a \in RefineLines}
                            \cup {<<a, b>> : a \in RefineLines, b \in RefineLines},
                    b \in ReuseBodies}

(***************************************************************************)
(* Multi-channel files of converter.py: has_multiple_channels and          *)
(* split_v2_file_by_channel.  A file on disk is [name, lines, exists,      *)
(* readable]; occ lists the occurrences of the phrase "Corrected           *)
(* accelerogram" on a line as they are written, and a line of kind         *)
(* "chanhdr" is one matched by header_pattern                              *)
(* (^Corrected accelerogram.*?Chan\s+(\d+):), cap being its channel number.*)
(* Matches start at line starts, so blocks are runs of whole lines.        *)
(***************************************************************************)
PhraseForms ==
    {"Corrected accelerogram", "CORRECTED ACCELEROGRAM", "corrected accelerogram"}

\* str.lower() on the phrase as written
Lower(w) == IF w \in PhraseForms THEN "corrected accelerogram" ELSE w

Occ(line) == IF "occ" \in DOMAIN line THEN line.occ ELSE <<>>

\* file_content.lower().count('corrected accelerogram')
RECURSIVE Count(_)
Count(lines) ==
    IF lines = <<>> THEN 0
    ELSE Cardinality({j \in 1..Len(Occ(Head(lines))) :
                         Lower(Occ(Head(lines))[j]) = "corrected accelerogram"})
         + Count(Tail(lines))

\* two occurrences are taken for several channels
HasMultipleChannelsFromTwo(f) ==
    f.exists /\ f.readable /\ Count(f.lines) > MultiThreshold - 1

\* has_multiple_channels: False for a missing file and on any exception
HasMultipleChannels(f) ==
    IF ~f.exists THEN FALSE
    ELSE IF ~f.readable THEN FALSE
    ELSE Count(f.lines) > MultiThreshold

\* matches = list(header_pattern.finditer(file_content)), as line indices
RECURSIVE Matches(_, _)
Matches(lines, i) ==
    IF i >= Len(lines) THEN <<>>
    ELSE (IF lines[i + 1].kind = "chanhdr" THEN <<i>> ELSE <<>>)
         \o Matches(lines, i + 1)

\* channel_block = file_content[block_start:block_end]
ChannelBlock(lines, m, i) ==
    SubSeq(lines, m[i] + 1, IF i + 1 <= Len(m) THEN m[i + 1] ELSE Len(lines))

\* header_pattern.search(channel_block): the first header line of the block
HeaderInBlock(block) ==
    block[CHOOSE j \in 1..Len(block) :
             /\ block[j].kind = "chanhdr"
             /\ \A k \in 1..(j - 1) : block[k].kind # "chanhdr"]

\* with open(output_filepath, 'w') as outfile: outfile.write(channel_block)
\* "open": open() raises and the path is left as it was; "write": write()
\* raises after open() truncated the file
WriteOutcomes == {"ok", "open", "write"}

WriteFile(d, n, text) ==
    [k \in (DOMAIN d) \cup {n} |-> IF k = n THEN text ELSE d[k]]

NoFiles == [k \in {} |-> <<>>]
SplitInit == [outputs |-> <<>>, blocks |-> <<>>, disk |-> NoFiles]

\* one iteration of "for i, match in enumerate(matches)"
SplitBlock(st, lines, m, i, outcome) ==
    LET block == ChannelBlock(lines, m, i)
        channel_num == DigitsVal(HeaderInBlock(block).cap)
    IN  CASE outcome = "ok" ->
                [outputs |-> Append(st.outputs, channel_num),
                 blocks |-> Append(st.blocks, block),
                 disk |-> WriteFile(st.disk, channel_num, block)]
          [] outcome = "write" ->
                [st EXCEPT !.blocks = Append(st.blocks, block),
                           !.disk = WriteFile(st.disk, channel_num, <<>>)]
          [] OTHER -> [st EXCEPT !.blocks = Append(st.blocks, block)]

RECURSIVE SplitBlocks(_, _, _, _, _)
SplitBlocks(st, lines, m, i, wr) ==
    IF i > Len(m) THEN st
    ELSE SplitBlocks(SplitBlock(st, lines, m, i, wr[i]), lines, m, i + 1, wr)

\* split_v2_file_by_channel; wr[i] is the outcome of the write of block i
SplitV2FileByChannel(f, wr) ==
    IF ~f.exists \/ ~f.readable THEN SplitInit
    ELSE IF f.lines = <<>> THEN SplitInit
    ELSE IF Matches(f.lines, 0) = <<>> THEN SplitInit
    ELSE SplitBlocks(SplitInit, f.lines, Matches(f.lines, 0), 1, wr)

(***************************************************************************)
(* Multi-channel input files: channel headers for channels 1, 3 and 5      *)
(* (each written in another case), lines that hold the phrase without      *)
(* being a header, and data lines.  Every line of a file is distinct.      *)
(***************************************************************************)
Tag(i) == <<"x">> \o NumChars(i) \o <<"\n">>

ChanHeader(n, written, i) ==
    [kind |-> "chanhdr", cap |-> NumChars(n), text |-> Tag(i), occ |-> <<written>>]

\* e.g. " Corrected accelerogram ..." indented, or with no "Chan <n>:"
PhraseLine(i) ==
    [kind |-> "other", cap |-> <<>>, text |-> Tag(i),
     occ |-> <<"Corrected accelerogram">>]

SymLine(sym, i) ==
    CASE sym = "h1" -> ChanHeader(1, "Corrected accelerogram", i)
      [] sym = "h3" -> ChanHeader(3, "CORRECTED ACCELEROGRAM", i)
      [] sym = "h5" -> ChanHeader(5, "corrected accelerogram", i)
      [] sym = "phrase" -> PhraseLine(i)
      [] sym = "data" -> DataLine(i)
      [] sym = "start" -> Stamp("start")
      [] sym = "rcrd" -> Stamp("rcrd")
      [] sym = "interval" -> Interval01
      [] OTHER -> Line(sym, <<>>)

Text(syms) == [k \in 1..Len(syms) |-> SymLine(syms[k], k - 1)]

\* writable: whether files can be created next to the input file; namechan:
\* the number of a CHAN<n> in the file name
OnDisk(name, lines) ==
    [name |-> name, lines |-> lines, exists |-> TRUE, readable |-> TRUE,
     writable |-> TRUE, namechan |-> NoneN]

SplitSyms == {"h1", "h3", "h5", "phrase", "data"}

\* a preamble, then channels 1, 3, 5; and the same channels out of order
Chan135 == Text(<<"data", "h1", "data", "h3", "data", "data", "h5", "data">>)
Chan513 == Text(<<"h5", "data", "h1", "h3", "data">>)

SplitFiles ==
    {OnDisk("A", Text(syms)) : syms \in SeqsUpTo(SplitSyms, MaxLines)}
    \cup {OnDisk("A", Chan135), OnDisk("A", Chan513)}
    \cup {[OnDisk("A", Chan135) EXCEPT !.exists = FALSE, !.readable = FALSE],
          [OnDisk("A", Chan135) EXCEPT !.readable = FALSE]}

(***************************************************************************)
(* Exporters.  The result of an export is the exception it raises ("none"  *)
(* when it returns True), whether the output file was created, the series  *)
(* written to it, and the series a warning was printed about.              *)
(***************************************************************************)
Rejected ==
    [raised |-> "ValueError", file |-> FALSE, series |-> <<>>, warnings |-> {}]

Exported(series, warnings) ==
    [raised |-> "none", file |-> TRUE, series |-> series, warnings |-> warnings]

\* the optional series that are not None
Present(velocity, displacement) ==
    (IF velocity.some THEN <<"velocity">> ELSE <<>>)
    \o (IF displacement.some THEN <<"displacement">> ELSE <<>>)

\* acceleration alone is taken for the required data
HasAccelerationOnly(r) == r.acceleration.some

\* WaveformRecord.has_required_data
HasRequiredData(r) == r.time.some /\ r.acceleration.some

\* WaveformRecord.validate_lengths
ValidateLengths(r) ==
    IF ~r.time.some THEN [velocity |-> FALSE, displacement |-> FALSE]
    ELSE [velocity |-> r.velocity.some /\ Len(r.velocity.v) = Len(r.time.v),
          displacement |->
              r.displacement.some /\ Len(r.displacement.v) = Len(r.time.v)]

\* the columns of a CSV export and the warnings printed while choosing them
CsvExport(velocity, displacement, velocityFits, displacementFits) ==
    Exported(<<"time", "acceleration">>
                 \o (IF velocityFits THEN <<"velocity">> ELSE <<>>)
                 \o (IF displacementFits THEN <<"displacement">> ELSE <<>>),
             (IF ~velocityFits /\ velocity.some THEN {"velocity"} ELSE {})
                 \cup (IF ~displacementFits /\ displacement.some
                       THEN {"displacement"} ELSE {}))

\* exporters.to_csv
ToCsv(r) ==
    IF ~HasRequiredData(r) THEN Rejected
    ELSE CsvExport(r.velocity, r.displacement,
                   ValidateLengths(r).velocity, ValidateLengths(r).displacement)

\* exporters.to_mat: sio.savemat(output_path, record.to_mat_dict())
ToMat(r) ==
    IF ~HasRequiredData(r) THEN Rejected
    ELSE Exported(<<"time", "acceleration">> \o Present(r.velocity, r.displacement), {})

\* exporters.to_hdf5: record.write_hdf5(h5f)
ToHdf5(r) ==
    IF ~HasRequiredData(r) THEN Rejected
    ELSE Exported(<<"time", "acceleration">> \o Present(r.velocity, r.displacement), {})

Formats == {"csv", "mat", "h5"}

Export(r, fmt) ==
    CASE fmt = "csv" -> ToCsv(r) [] fmt = "mat" -> ToMat(r) [] fmt = "h5" -> ToHdf5(r)

\* CESMDConverter.to_csv; the row loop indexes acceleration up to len(time_array)
ConverterToCsv(s) ==
    IF ~s.acceleration.some \/ ~s.time_array.some THEN Rejected
    ELSE IF Len(s.acceleration.v) < Len(s.time_array.v)
    THEN [raised |-> "IndexError", file |-> TRUE, series |-> <<>>, warnings |-> {}]
    ELSE CsvExport(s.velocity, s.displacement,
                   s.velocity.some /\ Len(s.velocity.v) = Len(s.time_array.v),
                   s.displacement.some /\ Len(s.displacement.v) = Len(s.time_array.v))

\* CESMDConverter.to_mat
ConverterToMat(s) ==
    IF ~s.acceleration.some \/ ~s.time_array.some THEN Rejected
    ELSE Exported(<<"time", "acceleration">> \o Present(s.velocity, s.displacement), {})

\* CESMDConverter.to_hdf5
ConverterToHdf5(s) ==
    IF ~s.acceleration.some \/ ~s.time_array.some THEN Rejected
    ELSE Exported(<<"time", "acceleration">> \o Present(s.velocity, s.displacement), {})

\* if output_format == "csv": ... elif "mat": ... elif "h5": ...
ConverterExport(s, fmt) ==
    CASE fmt = "csv" -> ConverterToCsv(s)
      [] fmt = "mat" -> ConverterToMat(s)
      [] fmt = "h5" -> ConverterToHdf5(s)

(***************************************************************************)
(* ConverterGUI.convert_files: the batch driver.                           *)
(***************************************************************************)
\* F(v) with v evaluated once
Bind(v, F(_)) == CHOOSE y \in {F(x) : x \in {v}} : TRUE

\* channel_num: metadata.get('channel_number', 0), else CHAN<n> of the file name
ChannelNum(md, namechan) ==
    IF md.channel_number.some /\ md.channel_number.v # 0
    THEN md.channel_number.v
    ELSE IF namechan.some THEN namechan.v ELSE 0

\* the converter after parse_v2_file returned ret, and its export
Converted(p, namechan, fmt) ==
    [parsed |-> p.ret,
     timeless |-> ~p.self.time_array.some,
     lengths |-> [time |-> IF p.self.time_array.some
                           THEN Len(p.self.time_array.v) ELSE 0,
                  velocity |-> IF p.self.velocity.some
                               THEN Len(p.self.velocity.v) ELSE NoLine,
                  displacement |-> IF p.self.displacement.some
                                   THEN Len(p.self.displacement.v) ELSE NoLine],
     channel |-> ChannelNum(p.self.metadata, namechan),
     export |-> IF p.ret THEN ConverterExport(p.self, fmt) ELSE Rejected]

\* converter = CESMDConverter(); converter.parse_v2_file(path) and, when it
\* returns True, the export to channel_<NNN>.<format>
ConvertOne(lines, readable, namechan, fmt, e) ==
    Bind(IF readable THEN ConverterParse(ConverterInit, lines, e)
         ELSE [self |-> ConverterInit, ret |-> FALSE],
         LAMBDA p : Converted(p, namechan, fmt))

TallyInit ==
    [success |-> 0, error |-> 0, written |-> <<>>, subs |-> <<>>, raised |-> FALSE]

\* a parse that returns False is not counted
TallyUncounted(t, sub, name) ==
    IF ~sub.parsed THEN [t EXCEPT !.subs = Append(t.subs, sub)]
    ELSE IF sub.export.raised # "none"
    THEN [t EXCEPT !.raised = TRUE, !.subs = Append(t.subs, sub)]
    ELSE [t EXCEPT !.success = t.success + 1, !.subs = Append(t.subs, sub)]

\* the body of the loops over the files to parse: success_count += 1 after the
\* export, error_count += 1 when the parse returns False; an exception of the
\* export leaves the loop
Tally(t, sub, name) ==
    IF ~sub.parsed
    THEN [t EXCEPT !.error = t.error + 1, !.subs = Append(t.subs, sub)]
    ELSE IF sub.export.raised # "none"
    THEN [t EXCEPT !.raised = TRUE, !.subs = Append(t.subs, sub)]
    ELSE [t EXCEPT !.success = t.success + 1, !.subs = Append(t.subs, sub),
                   !.written = Append(t.written,
                                      [channel |-> sub.channel, from |-> name,
                                       series |-> sub.export.series])]

\* for _file_path in file_paths: ...
RECURSIVE ConvertSplit(_, _, _, _, _, _, _)
ConvertSplit(t, paths, i, files, f, fmt, e) ==
    IF i > Len(paths) \/ t.raised THEN t
    ELSE Bind(ConvertOne(files[paths[i]], TRUE, f.namechan, fmt, e),
              LAMBDA sub :
                  Bind(Tally(t, sub, f.name),
                       LAMBDA t1 : ConvertSplit(t1, paths, i + 1, files, f, fmt, e)))

\* the writes of the blocks of one file: all succeed, or all fail at open()
\* when no file can be created next to the input file
BlockWrites(f) ==
    [i \in 1..Len(Matches(f.lines, 0)) |-> IF f.writable THEN "ok" ELSE "open"]

\* the outcome of one iteration: the except clause adds one error
Outcome(f, many, splits, t) ==
    [name |-> f.name, multi |-> many, splits |-> splits,
     subs |-> t.subs, written |-> t.written, raised |-> t.raised,
     success |-> t.success, error |-> t.error + (IF t.raised THEN 1 ELSE 0)]

\* if CESMDConverter.has_multiple_channels(file_path): ...
ConvertChannels(f, fmt, e) ==
    Bind(SplitV2FileByChannel(f, BlockWrites(f)),
         LAMBDA split :
             Bind(ConvertSplit(TallyInit, split.outputs, 1, split.disk, f, fmt, e),
                  LAMBDA t : Outcome(f, TRUE, Len(split.outputs), t)))

\* else: ...
ConvertSingle(f, fmt, e) ==
    Bind(ConvertOne(f.lines, f.readable, f.namechan, fmt, e),
         LAMBDA sub :
             Bind(Tally(TallyInit, sub, f.name), LAMBDA t : Outcome(f, FALSE, 0, t)))

\* one iteration of "for i, file_path in enumerate(v2_files)", with its
\* try / except Exception: error_count += 1
ConvertFile(f, fmt, e) ==
    IF HasMultipleChannels(f) THEN ConvertChannels(f, fmt, e)
    ELSE ConvertSingle(f, fmt, e)

(***************************************************************************)
(* Metadata of models.py.  A Python value is [t, v]: its type ("none",     *)
(* "int", "float", "str") and its value (a number; for a string its        *)
(* length).  A Metadata object is [known, extras]: the dataclass fields    *)
(* other than extras, and the extras dict.                                 *)
(***************************************************************************)
PyNone == [t |-> "none", v |-> 0]
PyInt(n) == [t |-> "int", v |-> n]
PyFloat(x) == [t |-> "float", v |-> x]
PyStr(n) == [t |-> "str", v |-> n]

\* _known_field_names(): {f.name for f in fields(Metadata) if f.name != "extras"}
KnownFieldNames ==
    {"filename", "filepath", "utc_time", "observation_time", "channel_number",
     "station_channel_number", "obs_month", "obs_day", "obs_year", "obs_hour",
     "obs_minute", "obs_second", "obs_timezone", "utc_month", "utc_day",
     "utc_year", "utc_hour", "utc_minute", "utc_second", "station_id",
     "latitude", "longitude", "hypocenter_info", "magnitude_info",
     "instrument_period", "sampling_rate", "time_interval", "peak_acceleration",
     "peak_velocity", "peak_displacement"}

NoExtras == [k \in {} |-> PyNone]

\* Metadata.from_filepath(filepath)
FromFilepath ==
    [known |-> [k \in KnownFieldNames |->
                   IF k \in {"filename", "filepath"} THEN PyStr(4) ELSE PyNone],
     extras |-> NoExtras]

\* __setitem__
SetItem(md, key, value) ==
    IF key \in KnownFieldNames
    THEN [md EXCEPT !.known[key] = value]
    ELSE [md EXCEPT !.extras =
             [k \in (DOMAIN md.extras) \cup {key} |->
                 IF k = key THEN value ELSE md.extras[k]]]

\* a get that takes every falsy value for an absent one
GetOrDefault(md, key, default) ==
    IF key \in KnownFieldNames
    THEN (IF md.known[key].v = 0 THEN default ELSE md.known[key])
    ELSE IF key \in DOMAIN md.extras THEN md.extras[key] ELSE default

\* get(key, default)
Get(md, key, default) ==
    IF key \in KnownFieldNames
    THEN (IF md.known[key] = PyNone THEN default ELSE md.known[key])
    ELSE IF key \in DOMAIN md.extras THEN md.extras[key] ELSE default

NotGot == [key |-> "", default |-> PyNone, value |-> PyNone]

MetadataIdle ==
    /\ metadata = FromFilepath
    /\ got = NotGot
    /\ nsets = 0

(***************************************************************************)
(* ConverterGUI.start_conversion: every call starts a convert_files thread *)
(* on the files of the input directory.  A thread is [pc, fi, targets, ti, *)
(* phase]: the number of files it has begun, the paths the current file    *)
(* makes it write (the split files, then the derived output files), the    *)
(* number of those it has closed, and where it is in                       *)
(* "with open(path, 'w') as f: f.write(...)".                              *)
(***************************************************************************)
Threads == 1..MaxThreads

SplitPath(name, n) == <<"input_dir", name, n>>
OutputPath(n) == <<"output_dir", "channel", n>>

\* the paths split_v2_file_by_channel writes for f, in order
SplitTargets(f) ==
    IF ~HasMultipleChannels(f) THEN <<>>
    ELSE Bind(SplitV2FileByChannel(f, BlockWrites(f)).outputs,
              LAMBDA o : [i \in 1..Len(o) |-> SplitPath(f.name, o[i])])

\* the output files channel_<NNN>.<format> the exports of f write, in order
OutputTargets(f, fmt) ==
    Bind(ConvertFile(f, fmt, 0).written,
         LAMBDA w : [i \in 1..Len(w) |-> OutputPath(w[i].channel)])

Targets(f, fmt) == SplitTargets(f) \o OutputTargets(f, fmt)

ThreadIdle == [pc |-> "idle", fi |-> 0, targets |-> <<>>, ti |-> 0, phase |-> "closed"]

ThreadsIdle ==
    /\ threads = [t \in Threads |-> ThreadIdle]
    /\ openFiles = {}

(***************************************************************************)
(* Specification of the decoder alone: one data line, drawn from the       *)
(* generated lines, is decoded between two well-formed lines.              *)
(***************************************************************************)
ParseIdle ==
    /\ content = <<>>
    /\ op = "init"
    /\ record = Raise("none")
    /\ self = ConverterInit
    /\ ret = "none"
    /\ calls = 0

SplitIdle ==
    /\ sfile = OnDisk("A", <<>>)
    /\ multi = "none"
    /\ outputs = <<>>
    /\ blocks = <<>>
    /\ disk = NoFiles
    /\ wrote = <<>>
    /\ spc = "ready"

NoExport == [fmt |-> "none", record |-> Raise("none"), result |-> Rejected]

BatchIdle ==
    /\ v2_files = <<>>
    /\ output_format = "csv"
    /\ bi = 0
    /\ success_count = 0
    /\ error_count = 0
    /\ status = "idle"
    /\ log = <<>>
    /\ out = NoExport

DecodeIdle ==
    /\ cellsIn = <<>>
    /\ tailIn = "nl"
    /\ decoded = <<>>
    /\ dpc = "ready"

InitDecode ==
    /\ \/ cellsIn \in SeqsUpTo(Cells, MaxCells) /\ tailIn \in Tails
       \/ cellsIn = NineCells /\ tailIn = "nl"
       \/ cellsIn = <<"n1", "n2", "n3">> /\ tailIn \in ShortTails
       \/ cellsIn = UnalignedCells /\ tailIn = "u3"
    /\ decoded = <<>>
    /\ dpc = "ready"
    /\ ParseIdle
    /\ SplitIdle
    /\ BatchIdle
    /\ MetadataIdle
    /\ ThreadsIdle

DecodeBlock ==
    /\ dpc = "ready"
    /\ decoded' = DecodeSection(Block(cellsIn, tailIn), 0, 3)
    /\ dpc' = "done"
    /\ UNCHANGED <<cellsIn, tailIn>>
    /\ UNCHANGED parseVars
    /\ UNCHANGED splitVars
    /\ UNCHANGED batchVars
    /\ UNCHANGED metadataVars
    /\ UNCHANGED threadVars

NextDecode == DecodeBlock

SpecDecode == InitDecode /\ [][NextDecode]_vars

(***************************************************************************)
(* Specification of parser.parse_v2_file alone, over the generated files.  *)
(***************************************************************************)
ParserCall(f, e) ==
    /\ content' = f
    /\ op' = "parser"
    /\ record' = ParseV2File(f, e)
    /\ calls' = calls + 1
    /\ UNCHANGED <<self, ret>>
    /\ UNCHANGED decodeVars
    /\ UNCHANGED splitVars
    /\ UNCHANGED batchVars
    /\ UNCHANGED metadataVars
    /\ UNCHANGED threadVars

ParseOneFile ==
    /\ calls = 0
    /\ \E f \in Files, e \in ArangeErrors : ParserCall(f, e)

InitParser ==
    DecodeIdle /\ ParseIdle /\ SplitIdle /\ BatchIdle /\ MetadataIdle /\ ThreadsIdle

NextParser == ParseOneFile

SpecParser == InitParser /\ [][NextParser]_vars

(***************************************************************************)
(* Specification of both parsers, with the converter instance used for a   *)
(* sequence of calls.                                                      *)
(***************************************************************************)
\* converter = CESMDConverter()
NewConverter ==
    /\ op # "new"
    /\ calls < MaxCalls
    /\ self' = ConverterInit
    /\ ret' = "none"
    /\ op' = "new"
    /\ UNCHANGED <<content, record, calls>>
    /\ UNCHANGED decodeVars
    /\ UNCHANGED splitVars
    /\ UNCHANGED batchVars
    /\ UNCHANGED metadataVars
    /\ UNCHANGED threadVars

\* converter.parse_v2_file(f)
ConverterParseFile ==
    /\ calls < MaxCalls
    /\ \E f \in ReuseFiles, e \in ArangeErrors :
          LET r == ConverterParse(self, f, e)
          IN  /\ self' = r.self
              /\ ret' = IF r.ret THEN "True" ELSE "False"
              /\ content' = f
    /\ op' = "conv"
    /\ calls' = calls + 1
    /\ UNCHANGED record
    /\ UNCHANGED decodeVars
    /\ UNCHANGED splitVars
    /\ UNCHANGED batchVars
    /\ UNCHANGED metadataVars
    /\ UNCHANGED threadVars

\* cesmd_converter.parser.parse_v2_file(f)
ParserParseFile ==
    /\ calls < MaxCalls
    /\ \E f \in ReuseFiles, e \in ArangeErrors : ParserCall(f, e)

Init ==
    DecodeIdle /\ ParseIdle /\ SplitIdle /\ BatchIdle /\ MetadataIdle /\ ThreadsIdle

Next == NewConverter \/ ConverterParseFile \/ ParserParseFile

Spec == Init /\ [][Next]_vars

(***************************************************************************)
(* Specification of the channel splitter: a file is checked with           *)
(* has_multiple_channels and then split, each block's write succeeding or  *)
(* failing.                                                                *)
(***************************************************************************)
InitSplit ==
    /\ sfile \in SplitFiles
    /\ multi = "none"
    /\ outputs = <<>>
    /\ blocks = <<>>
    /\ disk = NoFiles
    /\ wrote = <<>>
    /\ spc = "ready"
    /\ DecodeIdle
    /\ ParseIdle
    /\ BatchIdle
    /\ MetadataIdle
    /\ ThreadsIdle

\* CESMDConverter.has_multiple_channels(path)
CheckMultipleChannels ==
    /\ spc = "ready"
    /\ multi' = IF HasMultipleChannels(sfile) THEN "True" ELSE "False"
    /\ spc' = "checked"
    /\ UNCHANGED <<sfile, outputs, blocks, disk, wrote>>
    /\ UNCHANGED decodeVars
    /\ UNCHANGED parseVars
    /\ UNCHANGED batchVars
    /\ UNCHANGED metadataVars
    /\ UNCHANGED threadVars

\* CESMDConverter.split_v2_file_by_channel(path)
SplitFile ==
    /\ spc = "checked"
    /\ \E wr \in [1..Len(Matches(sfile.lines, 0)) -> WriteOutcomes] :
          LET r == SplitV2FileByChannel(sfile, wr)
          IN  /\ outputs' = r.outputs
              /\ blocks' = r.blocks
              /\ disk' = r.disk
              /\ wrote' = wr
    /\ spc' = "split"
    /\ UNCHANGED <<sfile, multi>>
    /\ UNCHANGED decodeVars
    /\ UNCHANGED parseVars
    /\ UNCHANGED batchVars
    /\ UNCHANGED metadataVars
    /\ UNCHANGED threadVars

NextSplit == CheckMultipleChannels \/ SplitFile

SpecSplit == InitSplit /\ [][NextSplit]_vars

(***************************************************************************)
(* Input files of the batch driver.  A channel block is a channel header   *)
(* followed by the lines of a single-channel file.                         *)
(***************************************************************************)
GoodSyms == <<"start", "interval", "accel", "data", "data", "veloc", "data", "data", "end">>
\* velocity one value short of acceleration, displacement of equal length
MismatchSyms ==
    <<"start", "interval", "accel", "data", "data", "veloc", "data",
      "displ", "data", "data", "end">>
\* no sampling interval statement: no time axis
TimelessSyms == <<"start", "accel", "data", "veloc", "data", "end">>
\* no timestamp: the parse fails
NoStampSyms == <<"accel", "data", "end">>

Named(name, syms) == OnDisk(name, Text(syms))

BatchFiles ==
    {[Named("S", GoodSyms) EXCEPT !.namechan = Some(7)],
     Named("M", MismatchSyms),
     Named("T", TimelessSyms),
     Named("N", NoStampSyms),
     [Named("U", GoodSyms) EXCEPT !.readable = FALSE],
     Named("C", <<"h1">> \o GoodSyms \o <<"h3">> \o MismatchSyms \o <<"h5">> \o GoodSyms),
     Named("X", <<"h1">> \o TimelessSyms \o <<"h3">> \o GoodSyms \o <<"h5">> \o GoodSyms),
     Named("B", <<"h1">> \o GoodSyms \o <<"h3">> \o NoStampSyms \o <<"h5">> \o GoodSyms),
     \* the phrase three times, but no line that header_pattern matches
     Named("P", <<"phrase", "phrase", "phrase">> \o GoodSyms),
     \* three channels in a directory where no file can be created
     [Named("R", <<"h1">> \o GoodSyms \o <<"h3">> \o GoodSyms \o <<"h5">> \o GoodSyms)
         EXCEPT !.writable = FALSE]}

ExportFiles == {Text(GoodSyms), Text(MismatchSyms), Text(TimelessSyms)}

(***************************************************************************)
(* Specification of the batch driver (and of one export with exporters.py  *)
(* outside a batch).  SpecBatchFair adds that the conversion thread, once  *)
(* started, keeps running.                                                 *)
(***************************************************************************)
InitBatch ==
    DecodeIdle /\ ParseIdle /\ SplitIdle /\ BatchIdle /\ MetadataIdle /\ ThreadsIdle

\* convert_files up to the loop: glob, the check for no files, the counters
StartConversion ==
    /\ status = "idle"
    /\ out = NoExport
    /\ \E files \in SeqsUpTo(BatchFiles, MaxFiles), fmt \in Formats :
          /\ v2_files' = files
          /\ output_format' = fmt
          /\ status' = IF files = <<>> THEN "no_v2_files" ELSE "processing"
    /\ success_count' = 0
    /\ error_count' = 0
    /\ UNCHANGED <<bi, log, out>>
    /\ UNCHANGED decodeVars
    /\ UNCHANGED parseVars
    /\ UNCHANGED splitVars
    /\ UNCHANGED metadataVars
    /\ UNCHANGED threadVars

\* one iteration of the loop over v2_files
ProcessFile ==
    /\ status = "processing"
    /\ bi < Len(v2_files)
    /\ \E e \in ArangeErrors :
          \E r \in {ConvertFile(v2_files[bi + 1], output_format, e)} :
              /\ success_count' = success_count + r.success
              /\ error_count' = error_count + r.error
              /\ log' = Append(log, r)
    /\ bi' = bi + 1
    /\ UNCHANGED <<v2_files, output_format, status, out>>
    /\ UNCHANGED decodeVars
    /\ UNCHANGED parseVars
    /\ UNCHANGED splitVars
    /\ UNCHANGED metadataVars
    /\ UNCHANGED threadVars

\* after the loop: the completion message
FinishConversion ==
    /\ status = "processing"
    /\ bi = Len(v2_files)
    /\ status' = IF error_count = 0 THEN "completed" ELSE "completed_with_errors"
    /\ UNCHANGED <<v2_files, output_format, bi, success_count, error_count, log, out>>
    /\ UNCHANGED decodeVars
    /\ UNCHANGED parseVars
    /\ UNCHANGED splitVars
    /\ UNCHANGED metadataVars
    /\ UNCHANGED threadVars

\* exporters.to_csv / to_mat / to_hdf5 on the record of parser.parse_v2_file
ExportRecord ==
    /\ status = "idle"
    /\ out = NoExport
    /\ \E lines \in ExportFiles, fmt \in Formats, e \in ArangeErrors :
          \E r \in {ParseV2File(lines, e)} :
              /\ r.status = "record"
              /\ out' = [fmt |-> fmt, record |-> r, result |-> Export(r, fmt)]
    /\ UNCHANGED <<v2_files, output_format, bi, success_count, error_count, status, log>>
    /\ UNCHANGED decodeVars
    /\ UNCHANGED parseVars
    /\ UNCHANGED splitVars
    /\ UNCHANGED metadataVars
    /\ UNCHANGED threadVars

NextBatch == StartConversion \/ ProcessFile \/ FinishConversion \/ ExportRecord

SpecBatch == InitBatch /\ [][NextBatch]_vars

\* the loop going on to its next iteration: the steps of NextBatch that
\* advance bi are the ProcessFile steps, and ProcessFile is enabled exactly
\* when the loop has a file left
LoopStep == status = "processing" /\ bi < Len(v2_files) /\ bi' = bi + 1

SpecBatchFair ==
    /\ InitBatch
    /\ [][NextBatch]_vars
    /\ WF_bi(LoopStep)
    /\ WF_vars(FinishConversion)

(***************************************************************************)
(* Specification of a Metadata object: item assignments and get calls.     *)
(***************************************************************************)
MetadataKeys ==
    {"filename", "channel_number", "obs_second", "station_note", "extras"}
MetadataValues == {PyNone, PyInt(0), PyFloat(0), PyInt(5)}
MetadataDefaults == {PyNone, PyInt(7)}

InitMetadata ==
    DecodeIdle /\ ParseIdle /\ SplitIdle /\ BatchIdle /\ MetadataIdle /\ ThreadsIdle

\* metadata[key] = value
MetadataSetItem ==
    /\ nsets < MaxSets
    /\ \E key \in MetadataKeys, value \in MetadataValues :
          metadata' = SetItem(metadata, key, value)
    /\ nsets' = nsets + 1
    /\ UNCHANGED got
    /\ UNCHANGED <<decodeVars, parseVars, splitVars, batchVars, threadVars>>

\* metadata.get(key, default)
MetadataGet ==
    /\ \E key \in MetadataKeys, default \in MetadataDefaults :
          got' = [key |-> key, default |-> default,
                  value |-> Get(metadata, key, default)]
    /\ UNCHANGED <<metadata, nsets>>
    /\ UNCHANGED <<decodeVars, parseVars, splitVars, batchVars, threadVars>>

NextMetadata == MetadataSetItem \/ MetadataGet

SpecMetadata == InitMetadata /\ [][NextMetadata]_vars

(***************************************************************************)
(* Specification of the conversion threads: start_conversion is called     *)
(* MaxThreads times on the same directories and the same format, whether   *)
(* or not an earlier thread is still running.                              *)
(***************************************************************************)
ThreadFiles == <<Named("C", <<"h1">> \o GoodSyms \o <<"h3">> \o GoodSyms
                              \o <<"h5">> \o GoodSyms),
                 [Named("S", GoodSyms) EXCEPT !.namechan = Some(7)]>>
ThreadFormat == "csv"

InitThreads ==
    DecodeIdle /\ ParseIdle /\ SplitIdle /\ BatchIdle /\ MetadataIdle /\ ThreadsIdle

OtherVarsUnchanged ==
    UNCHANGED <<decodeVars, parseVars, splitVars, batchVars, metadataVars>>

\* start_conversion: thread = Thread(target=self.convert_files, ...); start()
StartThread(t) ==
    /\ threads[t].pc = "idle"
    /\ \A u \in 1..(t - 1) : threads[u].pc # "idle"
    /\ threads' = [threads EXCEPT ![t].pc = "running"]
    /\ UNCHANGED openFiles
    /\ OtherVarsUnchanged

\* the next iteration of the loop over v2_files
BeginFile(t) ==
    /\ threads[t].pc = "running"
    /\ threads[t].ti = Len(threads[t].targets)
    /\ threads[t].fi < Len(ThreadFiles)
    /\ \E tg \in {Targets(ThreadFiles[threads[t].fi + 1], ThreadFormat)} :
          threads' = [threads EXCEPT ![t].fi = @ + 1, ![t].targets = tg, ![t].ti = 0]
    /\ UNCHANGED openFiles
    /\ OtherVarsUnchanged

\* open(path, 'w')
OpenTarget(t) ==
    /\ threads[t].pc = "running"
    /\ threads[t].ti < Len(threads[t].targets)
    /\ threads[t].phase = "closed"
    /\ threads' = [threads EXCEPT ![t].phase = "open"]
    /\ openFiles' = openFiles \cup {<<threads[t].targets[threads[t].ti + 1], t>>}
    /\ OtherVarsUnchanged

\* f.write(...)
WriteTarget(t) ==
    /\ threads[t].phase = "open"
    /\ threads' = [threads EXCEPT ![t].phase = "written"]
    /\ UNCHANGED openFiles
    /\ OtherVarsUnchanged

\* leaving the with block closes the file
CloseTarget(t) ==
    /\ threads[t].phase = "written"
    /\ threads' = [threads EXCEPT ![t].phase = "closed", ![t].ti = @ + 1]
    /\ openFiles' = openFiles \ {<<threads[t].targets[threads[t].ti + 1], t>>}
    /\ OtherVarsUnchanged

\* convert_files returns after the completion message
FinishThread(t) ==
    /\ threads[t].pc = "running"
    /\ threads[t].ti = Len(threads[t].targets)
    /\ threads[t].fi = Len(ThreadFiles)
    /\ threads' = [threads EXCEPT ![t].pc = "done"]
    /\ UNCHANGED openFiles
    /\ OtherVarsUnchanged

NextThreads ==
    \E t \in Threads :
        \/ StartThread(t)
        \/ BeginFile(t)
        \/ OpenTarget(t)
        \/ WriteTarget(t)
        \/ CloseTarget(t)
        \/ FinishThread(t)

SpecThreads == InitThreads /\ [][NextThreads]_vars

(***************************************************************************)
(* Specification of the two parsers on one file: parser.parse_v2_file,     *)
(* then CESMDConverter.parse_v2_file of a new instance on the same file.   *)
(***************************************************************************)
InitRefine ==
    DecodeIdle /\ ParseIdle /\ SplitIdle /\ BatchIdle /\ MetadataIdle /\ ThreadsIdle

\* record = parse_v2_file(f)
BroadParse ==
    /\ op = "init"
    /\ \E f \in RefineFiles, e \in ArangeErrors : ParserCall(f, e)

\* converter = CESMDConverter(); converter.parse_v2_file(f)
NarrowParse ==
    /\ op = "parser"
    /\ \E e \in ArangeErrors :
          \E r \in {ConverterParse(ConverterInit, content, e)} :
              /\ self' = r.self
              /\ ret' = IF r.ret THEN "True" ELSE "False"
    /\ op' = "both"
    /\ calls' = calls + 1
    /\ UNCHANGED <<content, record>>
    /\ UNCHANGED <<decodeVars, splitVars, batchVars, metadataVars, threadVars>>

NextRefine == BroadParse \/ NarrowParse

SpecRefine == InitRefine /\ [][NextRefine]_vars

(***************************************************************************)
(* What a decoded line should hold, read off the cells it was written      *)
(* from: the columns are the first MaxCols of the cells followed by the    *)
(* tail.                                                                   *)
(***************************************************************************)
ColumnCells == SubSeq(cellsIn, 1, Min(Len(cellsIn), MaxCols))
TailIsColumn == Len(cellsIn) < MaxCols

RECURSIVE ValuesOf(_)
ValuesOf(cs) ==
    IF cs = <<>> THEN <<>>
    ELSE (IF Head(cs) \in Convertible THEN <<CellValue(Head(cs))>> ELSE <<>>)
         \o ValuesOf(Tail(cs))

\* the values of the columns that are numbers, in column order
ConvertingValues ==
    ValuesOf(ColumnCells) \o (IF TailIsColumn THEN TailValues(tailIn) ELSE <<>>)

\* some column that is read (longer than MinSlice) is not a number
SomeColumnFails ==
    \/ \E i \in 1..Len(ColumnCells) : ColumnCells[i] \notin Convertible
    \/ TailIsColumn /\ tailIn = "blank4"

Around(values) == BlockBefore \o values \o BlockAfter

(***************************************************************************)
(* C1: in every record of a successful parse that has a time axis,         *)
(* len(time) = len(acceleration), for parser.parse_v2_file and for         *)
(* CESMDConverter.parse_v2_file.                                           *)
(***************************************************************************)
C1_TimeLength ==
    /\ (record.status = "record" /\ record.time.some)
          => Len(record.time.v) = Len(record.acceleration.v)
    /\ (ret = "True" /\ self.time_array.some)
          => Len(self.time_array.v) = Len(self.acceleration.v)

C1_Witness ==
    /\ record.status = "record" /\ record.time.some
    /\ Len(record.acceleration.v) > 0
    /\ ret = "True" /\ self.time_array.some
    /\ Len(self.acceleration.v) > 0

(***************************************************************************)
(* C2: parse_v2_file returns a record or fails with "missing timestamp"    *)
(* or "missing acceleration section", and in no other way.                 *)
(***************************************************************************)
C2_OnlyTwoFailures ==
    op = "parser"
        => record.status \in {"record", "missing_timestamp", "missing_acceleration"}

(***************************************************************************)
(* C3 as claimed: a column that fails conversion is dropped alone; the     *)
(* columns of the line that convert are still emitted, in order.           *)
(***************************************************************************)
C3_ColumnDroppedAlone == dpc = "done" => decoded = Around(ConvertingValues)

(***************************************************************************)
(* C3 as amended: a column that is read and fails conversion discards the  *)
(* whole line, so the line emits nothing, also for its columns that        *)
(* convert; the lines before and after it are decoded as usual, and a      *)
(* column of at most MinSlice characters is not read and discards nothing. *)
(***************************************************************************)
C3_LineDroppedWhole ==
    dpc = "done"
        => decoded = Around(IF SomeColumnFails THEN <<>> ELSE ConvertingValues)

C3_Witness ==
    dpc = "done" /\ cellsIn = <<"n1", "blank">> /\ tailIn = "val7"
    /\ decoded = Around(<<>>)

(***************************************************************************)
(* C4: when no timestamp is recovered from the first HeaderLines lines the *)
(* parse fails with the missing-timestamp condition.                       *)
(***************************************************************************)
InHeader(lines, kinds) ==
    \E i \in 1..Min(HeaderLines, Len(lines)) : lines[i].kind \in kinds

C4_MissingTimestamp ==
    (op = "parser" /\ ~InHeader(content, StampKinds))
        => record.status = "missing_timestamp"

(***************************************************************************)
(* C5: with no acceleration start marker in the file the parse fails with  *)
(* the missing-acceleration condition, or with missing timestamp when the  *)
(* timestamp is missing too.                                               *)
(***************************************************************************)
HasMarker(lines, k) == \E i \in 1..Len(lines) : lines[i].kind = k

C5_MissingAcceleration ==
    (op = "parser" /\ ~HasMarker(content, "accel"))
        => record.status = (IF InHeader(content, StampKinds)
                            THEN "missing_acceleration" ELSE "missing_timestamp")

(***************************************************************************)
(* C6: each section starts on the line after its (last) marker;            *)
(* acceleration ends at the velocity marker if there is one, else at the   *)
(* end-of-data line; velocity ends at the displacement marker if there is  *)
(* one, else at end-of-data; displacement ends at end-of-data; the ends    *)
(* are exclusive and only data lines inside a range contribute values.     *)
(* With markers at lines 10, 40 and 70 acceleration is lines 11..39,       *)
(* velocity is lines 41..69 and displacement is absent.                    *)
(***************************************************************************)
LastLine(lines, k) ==
    LET S == {i \in 0..(Len(lines) - 1) : lines[i + 1].kind = k}
    IN  IF S = {} THEN NoLine ELSE CHOOSE x \in S : \A y \in S : y <= x

\* the values of the data lines with index in [a, b): a data line holds its index
RECURSIVE DataValues(_, _, _)
DataValues(lines, a, b) ==
    IF a >= b THEN <<>>
    ELSE IF b = a + 1
         THEN (IF lines[a + 1].kind = "data" THEN <<a * Scale>> ELSE <<>>)
    ELSE DataValues(lines, a, (a + b) \div 2) \o DataValues(lines, (a + b) \div 2, b)

C6_SectionRanges ==
    (op = "parser" /\ record.status = "record") =>
        LET a == LastLine(content, "accel")
            v == LastLine(content, "veloc")
            d == LastLine(content, "displ")
            e == LastLine(content, "end")
            accEnd == IF v # NoLine THEN v ELSE e
            velEnd == IF d # NoLine THEN d ELSE e
        IN  /\ record.loc.accel = a + 1
            /\ record.ends.accel = accEnd
            /\ record.acceleration = Some(DataValues(content, a + 1, accEnd))
            /\ (v # NoLine /\ velEnd > 0)
                  => /\ record.loc.veloc = v + 1
                     /\ record.ends.veloc = velEnd
                     /\ record.velocity = Some(DataValues(content, v + 1, velEnd))
            /\ (d # NoLine /\ e > 0)
                  => /\ record.loc.displ = d + 1
                     /\ record.ends.displ = e
                     /\ record.displacement = Some(DataValues(content, d + 1, e))
            /\ v = NoLine => ~record.velocity.some
            /\ d = NoLine => ~record.displacement.some
            /\ content = ExampleFile
                  => /\ record.acceleration = Some([i \in 1..29 |-> (10 + i) * Scale])
                     /\ record.velocity = Some([i \in 1..29 |-> (40 + i) * Scale])
                     /\ ~record.displacement.some

C6_Witness ==
    /\ op = "parser" /\ content = ExampleFile /\ record.status = "record"
    /\ Len(record.acceleration.v) = 29

(***************************************************************************)
(* C7 as claimed: columns j = 0..MaxCols-1 of ColWidth characters, read    *)
(* only when longer than MinSlice, values in column order; the line        *)
(* "  1.2345  -2.341   0.0012" yields its three values in order.           *)
(***************************************************************************)
AllColumnsConvert == ~SomeColumnFails

C7_UnalignedLineDecodes ==
    dpc = "done" =>
        /\ AllColumnsConvert => decoded = Around(ConvertingValues)
        /\ (cellsIn = UnalignedCells /\ tailIn = "u3")
              => decoded = Around(<<12345, 0 - 23410, 12>>)

(***************************************************************************)
(* C7 as amended: the same rule, with the three values each right-aligned  *)
(* in a column of its own ("    1.2345    -2.341    0.0012"): such a line  *)
(* yields the three values in order, with or without a trailing column of  *)
(* fewer than 4 characters.  The unaligned 25-character text is cut into   *)
(* "  1.2345  ", "-2.341   0" and ".0012"; its second column is no number  *)
(* and the line yields nothing.                                            *)
(***************************************************************************)
C7_ColumnOrder ==
    dpc = "done" =>
        /\ AllColumnsConvert => decoded = Around(ConvertingValues)
        /\ (cellsIn = <<"n1", "n2", "n3">> /\ tailIn \in ShortTails)
              => decoded = Around(<<12345, 0 - 23410, 12>>)
        /\ (cellsIn = UnalignedCells /\ tailIn = "u3") => decoded = Around(<<>>)

C7_Witness ==
    /\ dpc = "done" /\ cellsIn = <<"n1", "n2", "n3">> /\ tailIn = "short3"
    /\ decoded = Around(<<12345, 0 - 23410, 12>>)

(***************************************************************************)
(* C8: a header line whose numeric capture is malformed leaves only that   *)
(* field unset: the parse gives what it gives for the same file with that  *)
(* line carrying no fact.                                                  *)
(***************************************************************************)
Sanitised(lines) ==
    [i \in 1..Len(lines) |->
        IF i <= HeaderLines /\ lines[i] \in MalformedFacts THEN Other ELSE lines[i]]

C8_MalformedCaptureTolerated ==
    op = "parser" => record = ParseV2File(Sanitised(content), 0)

(***************************************************************************)
(* C9: a record returned by parser.parse_v2_file has acceleration, and has *)
(* a time sequence exactly when a sampling interval statement is among the *)
(* first HeaderLines lines.                                                *)
(***************************************************************************)
IntervalRecovered(lines) ==
    \E i \in 1..Min(HeaderLines, Len(lines)) :
        lines[i].kind = "interval" /\ lines[i].cap # <<>>

C9_TimeIffInterval ==
    (op = "parser" /\ record.status = "record") =>
        /\ record.acceleration.some
        /\ record.time.some <=> IntervalRecovered(content)

C9_Witness ==
    /\ op = "parser" /\ record.status = "record"
    /\ record.time.some /\ Len(record.time.v) > 0
    /\ Len(content) > HeaderLines

(***************************************************************************)
(* C10: after any call of CESMDConverter.parse_v2_file the instance holds  *)
(* what a fresh instance holds after parsing that call's file alone.       *)
(***************************************************************************)
C10_NothingSurvives ==
    op = "conv" => self = ConverterParse(ConverterInit, content, 0).self

(***************************************************************************)
(* C11: after header extraction the UTC fields come from a Start-time      *)
(* field whenever one is among the header lines, whatever the order of the *)
(* Start-time and ORIGIN lines (also when both are on one line); they come *)
(* from an ORIGIN field only when there is no Start-time field, and then   *)
(* from the first ORIGIN field: a later ORIGIN never replaces a UTC time   *)
(* that is set.                                                            *)
(***************************************************************************)
HeaderIdx(lines) == 1..Min(HeaderLines, Len(lines))
StartIdx(lines) ==
    {i \in HeaderIdx(lines) : lines[i].kind \in {"start", "start_origin"}}
OriginIdx(lines) ==
    {i \in HeaderIdx(lines) : lines[i].kind \in {"origin", "start_origin"}}
Largest(S) == CHOOSE x \in S : \A y \in S : y <= x
Smallest(S) == CHOOSE x \in S : \A y \in S : x <= y

\* the year text of the field the UTC fields are to come from
UtcYearText(lines) ==
    IF StartIdx(lines) # {} THEN lines[Largest(StartIdx(lines))].cap
    ELSE IF OriginIdx(lines) # {} THEN OriginCap(lines[Smallest(OriginIdx(lines))])
    ELSE <<>>

C11_StartPrecedence ==
    (op = "parser" /\ record.status = "record") =>
        /\ StartIdx(content) # {}
              => /\ record.metadata.utc_time = Some("start")
                 /\ record.metadata.utc_year = Some(FullYear(UtcYearText(content)))
        /\ (StartIdx(content) = {} /\ OriginIdx(content) # {})
              => /\ record.metadata.utc_time = Some("origin")
                 /\ record.metadata.utc_year = Some(FullYear(UtcYearText(content)))
        /\ (StartIdx(content) = {} /\ OriginIdx(content) = {})
              => /\ ~record.metadata.utc_time.some
                 /\ ~record.metadata.utc_year.some

\* an ORIGIN line of 1989 followed by a Start-time line of 1995
C11_Witness ==
    /\ op = "parser" /\ record.status = "record"
    /\ content[1] = OriginLine(<<"8", "9">>) /\ content[2] = StartLine(<<"9", "5">>)
    /\ record.metadata.utc_time = Some("start")
    /\ record.metadata.utc_year = Some(1995)

(***************************************************************************)
(* C12: when the year of the field the UTC fields come from is written     *)
(* with two digits yy, the stored UTC year is 1900 + yy for yy >= 90 and   *)
(* 2000 + yy otherwise (95 -> 1995, 05 -> 2005, 90 -> 1990, 89 -> 2089),   *)
(* which is a year of four digits.                                         *)
(***************************************************************************)
TwoDigits(t) == 10 * DigitVal(t[1]) + DigitVal(t[2])

C12_YearPivot ==
    (op = "parser" /\ record.status = "record" /\ Len(UtcYearText(content)) = 2) =>
        LET t == UtcYearText(content)
            year == record.metadata.utc_year
        IN  /\ year.some
            /\ TwoDigits(t) >= 90 => year.v = 1900 + TwoDigits(t)
            /\ TwoDigits(t) < 90 => year.v = 2000 + TwoDigits(t)
            /\ year.v >= 1000 /\ year.v <= 9999
            /\ t = <<"9", "5">> => year.v = 1995
            /\ t = <<"0", "5">> => year.v = 2005
            /\ t = <<"9", "0">> => year.v = 1990
            /\ t = <<"8", "9">> => year.v = 2089

C12_Witness ==
    /\ op = "parser" /\ record.status = "record"
    /\ UtcYearText(content) = <<"8", "9">>
    /\ record.metadata.utc_year = Some(2089)

(***************************************************************************)
(* C13: for every header line matched by the case-insensitive station      *)
(* pattern, latitude is +lat for hemisphere N and -lat for S and longitude *)
(* is +lon for E and -lon for W, in the record of parser.parse_v2_file and *)
(* in the metadata of CESMDConverter.parse_v2_file.                        *)
(***************************************************************************)
StationIdx(lines) == {i \in HeaderIdx(lines) : StationMatch(lines[i])}

StationSigns(lines, md) ==
    StationIdx(lines) # {} =>
        LET st == lines[Largest(StationIdx(lines))]
        IN  /\ md.latitude = Some(FloatVal(st.lat) * SignFolded(st.ns, "N"))
            /\ md.longitude = Some(FloatVal(st.lon) * SignFolded(st.ew, "E"))

C13_StationSigns ==
    /\ (op = "parser" /\ record.status = "record")
          => StationSigns(content, record.metadata)
    /\ (op = "conv" /\ ret = "True") => StationSigns(content, self.metadata)

(***************************************************************************)
(* C14: has_multiple_channels is true exactly when the file exists, can be *)
(* read and holds 3 or more occurrences of "corrected accelerogram" in any *)
(* case; 0, 1 or 2 occurrences, a missing file and an unreadable file give *)
(* false.                                                                  *)
(***************************************************************************)
Occurrences(lines) ==
    Cardinality({ij \in (1..Len(lines)) \X (1..2) :
                    /\ ij[2] <= Len(Occ(lines[ij[1]]))
                    /\ Occ(lines[ij[1]])[ij[2]] \in PhraseForms})

HeaderChannels(lines) ==
    LET m == Matches(lines, 0)
    IN  [i \in 1..Len(m) |-> DigitsVal(lines[m[i] + 1].cap)]

AllWritten == \A i \in 1..Len(wrote) : wrote[i] = "ok"

C15_OneFilePerHeader ==
    (spc = "split" /\ sfile.exists /\ sfile.readable /\ AllWritten) =>
        /\ Len(blocks) = Len(HeaderChannels(sfile.lines))
        /\ outputs = HeaderChannels(sfile.lines)
        /\ Cardinality(DOMAIN disk) = Len(HeaderChannels(sfile.lines))

(***************************************************************************)
(* C16: the i-th block is the text from the i-th header match up to the    *)
(* next one (the end of the file for the last), so the blocks in order     *)
(* make up the content from the first header on, without overlap; every    *)
(* output file named in the result holds exactly the block it was written  *)
(* for; no line of the preamble is in any output file.                     *)
(***************************************************************************)
RECURSIVE Concat(_)
Concat(ss) == IF ss = <<>> THEN <<>> ELSE Head(ss) \o Concat(Tail(ss))

\* the indices of the blocks whose write succeeded, in order
RECURSIVE Written(_, _)
Written(wr, i) ==
    IF i > Len(wr) THEN <<>>
    ELSE (IF wr[i] = "ok" THEN <<i>> ELSE <<>>) \o Written(wr, i + 1)

C16_BlocksVerbatim ==
    (spc = "split" /\ blocks # <<>>) =>
        LET lines == sfile.lines
            m == Matches(lines, 0)
            ok == Written(wrote, 1)
        IN  /\ Concat(blocks) = SubSeq(lines, m[1] + 1, Len(lines))
            /\ \A i \in 1..Len(blocks) :
                  blocks[i] = SubSeq(lines, m[i] + 1,
                                     IF i < Len(m) THEN m[i + 1] ELSE Len(lines))
            /\ Len(outputs) = Len(ok)
            /\ \A i \in 1..Len(outputs) : disk[outputs[i]] = blocks[ok[i]]
            /\ \A n \in DOMAIN disk : \A j \in 1..m[1] :
                  \A k \in 1..Len(disk[n]) : disk[n][k] # lines[j]

(***************************************************************************)
(* C17: a file that has_multiple_channels takes for multi-channel and      *)
(* whose split gives no file is parsed as a single-channel file, so that   *)
(* it is counted as converted or as an error.                              *)
(***************************************************************************)
C17_FallbackToSingle ==
    \A i \in 1..Len(log) :
        (log[i].multi /\ log[i].splits = 0)
            => /\ Len(log[i].subs) >= 1
               /\ log[i].success + log[i].error >= 1

(***************************************************************************)
(* C18: when velocity or displacement is present with a length other than  *)
(* that of time, every exporter (CSV, MAT, HDF5; of exporters.py and of    *)
(* CESMDConverter) gives a warning for that series and leaves it out,      *)
(* writes time and acceleration, and does not fail.                        *)
(***************************************************************************)
MismatchHandled(name, len, timeLen, result) ==
    (len # NoLine /\ len # timeLen)
        => /\ result.raised = "none"
           /\ name \in result.warnings
           /\ \A k \in 1..Len(result.series) : result.series[k] # name
           /\ \E k \in 1..Len(result.series) : result.series[k] = "time"
           /\ \E k \in 1..Len(result.series) : result.series[k] = "acceleration"

LenOf(x) == IF x.some THEN Len(x.v) ELSE NoLine

C18_MismatchOmitted ==
    /\ (out.fmt # "none" /\ out.record.time.some)
          => /\ MismatchHandled("velocity", LenOf(out.record.velocity),
                                 Len(out.record.time.v), out.result)
             /\ MismatchHandled("displacement", LenOf(out.record.displacement),
                                 Len(out.record.time.v), out.result)
    /\ \A i \in 1..Len(log) : \A j \in 1..Len(log[i].subs) :
          LET sub == log[i].subs[j]
          IN  (sub.parsed /\ ~sub.timeless)
                 => /\ MismatchHandled("velocity", sub.lengths.velocity,
                                        sub.lengths.time, sub.export)
                    /\ MismatchHandled("displacement", sub.lengths.displacement,
                                        sub.lengths.time, sub.export)

(***************************************************************************)
(* C19: a record without a time sequence (no sampling rate recovered) is   *)
(* rejected by every exporter, of exporters.py and of CESMDConverter: the  *)
(* export raises and creates no output file; in a batch the file is        *)
(* counted as an error and nothing is written for that record.             *)
(***************************************************************************)
C19_TimelessRejected ==
    /\ (out.fmt # "none" /\ ~out.record.time.some)
          => /\ out.result.raised = "ValueError"
             /\ ~out.result.file
    /\ \A i \in 1..Len(log) : \A j \in 1..Len(log[i].subs) :
          LET sub == log[i].subs[j]
          IN  (sub.parsed /\ sub.timeless)
                 => /\ sub.export.raised = "ValueError"
                    /\ ~sub.export.file
                    /\ log[i].error >= 1
                    /\ error_count >= 1
                    /\ Len(log[i].written) < j

C19_Witness ==
    /\ status = "completed_with_errors"
    /\ Len(log) = 1 /\ log[1].name = "T"
    /\ log[1].subs[1].parsed /\ log[1].subs[1].timeless
    /\ error_count = 1 /\ success_count = 0

(***************************************************************************)
(* C20: a batch that has started on a non-empty list of files reaches the  *)
(* completion status whatever fails in the files; by then the loop has     *)
(* gone through every file of the list in order, and every file in which   *)
(* a parse returned False or an exception was raised has added to the      *)
(* error count, which is the sum over the files.                           *)
(***************************************************************************)
Completed == status \in {"completed", "completed_with_errors"}

FileFailed(entry) ==
    entry.raised \/ \E j \in 1..Len(entry.subs) : ~entry.subs[j].parsed

RECURSIVE Errors(_)
Errors(entries) ==
    IF entries = <<>> THEN 0 ELSE Head(entries).error + Errors(Tail(entries))

EveryFileVisited ==
    /\ Len(log) = Len(v2_files)
    /\ \A i \in 1..Len(log) : log[i].name = v2_files[i].name
    /\ \A i \in 1..Len(log) : FileFailed(log[i]) => log[i].error >= 1
    /\ error_count = Errors(log)
    /\ (\E i \in 1..Len(log) : FileFailed(log[i])) => status = "completed_with_errors"

C20_BatchCompletes ==
    /\ [](status = "processing" => <>Completed)
    /\ [](Completed => EveryFileVisited)

C20_Witness ==
    /\ Completed
    /\ Len(log) = 2
    /\ FileFailed(log[1]) /\ ~FileFailed(log[2])
    /\ error_count >= 1 /\ success_count >= 1

(***************************************************************************)
(* C21: in a batch, a block of a split multi-channel file whose parse      *)
(* returns False or whose export raises is the only block that is lost:    *)
(* every block of the file is parsed, every block that does not fail is    *)
(* exported, and the errors tallied for the file are one per failed block. *)
(***************************************************************************)
BlockFailed(sub) == ~sub.parsed \/ sub.export.raised # "none"

C21_FailureScopedToBlock ==
    \A i \in 1..Len(log) :
        (log[i].multi /\ log[i].splits > 0) =>
            /\ Len(log[i].subs) = log[i].splits
            /\ log[i].error
                  = Cardinality({j \in 1..Len(log[i].subs) : BlockFailed(log[i].subs[j])})
            /\ log[i].success
                  = Cardinality({j \in 1..Len(log[i].subs) : ~BlockFailed(log[i].subs[j])})

(***************************************************************************)
(* C22: whatever writes fail in split_v2_file_by_channel, every block is   *)
(* processed; the path of every block whose write succeeds is in the       *)
(* returned list and its file is on disk, the list has one path per        *)
(* successful write, and the path of a block whose write fails is not in   *)
(* the returned list.                                                      *)
(***************************************************************************)
Returned(n) == \E k \in 1..Len(outputs) : outputs[k] = n

C22_WriteFailureLocal ==
    (spc = "split" /\ sfile.exists /\ sfile.readable) =>
        LET chan == HeaderChannels(sfile.lines)
        IN  /\ Len(blocks) = Len(chan)
            /\ Len(outputs) = Len(Written(wrote, 1))
            /\ \A i \in 1..Len(chan) :
                  /\ wrote[i] = "ok" => (Returned(chan[i]) /\ chan[i] \in DOMAIN disk)
                  /\ wrote[i] # "ok" => ~Returned(chan[i])

(***************************************************************************)
(* C23: every file that split_v2_file_by_channel returns is, as an input   *)
(* file, not taken for multi-channel by has_multiple_channels, so that it  *)
(* is parsed as a single channel.                                          *)
(***************************************************************************)
\* the returned file <stem>_chan_<n>.V2 as it is found on disk
Emitted(n) == OnDisk("A_chan", disk[n])

C23_BlockIsSingleChannel ==
    spc = "split" =>
        \A k \in 1..Len(outputs) : ~HasMultipleChannels(Emitted(outputs[k]))

(***************************************************************************)
(* C24: the observation time is that of the last header line holding one   *)
(* of the two forms; on a line the "record of" form is taken when it       *)
(* matches, and the "Earthquake of" form only when it does not; the        *)
(* earthquake form stores its seconds (0.0 when none are written) and its  *)
(* zone in upper case; after the scan a zone is stored only when the       *)
(* stored observation time is of the earthquake form.                      *)
(***************************************************************************)
ObsIdx(lines) ==
    {i \in HeaderIdx(lines) : lines[i].kind \in {"rcrd", "quake", "rcrd_quake"}}

\* the zone as it should be stored, from the zone as it is written
ZoneStored(z) ==
    CASE z \in {"PST", "pst", "Pst"} -> "PST" [] z \in {"GMT", "gmt"} -> "GMT"

C24_ObservationTime ==
    (op = "parser" /\ record.status = "record") =>
        LET md == record.metadata
        IN  IF ObsIdx(content) = {}
            THEN ~md.observation_time.some /\ ~md.obs_timezone.some
            ELSE LET last == content[Largest(ObsIdx(content))]
                 IN  IF last.kind \in {"rcrd", "rcrd_quake"}
                     THEN /\ md.observation_time = Some("rcrd")
                          /\ md.obs_second = Some(FloatVal(last.sec))
                          /\ ~md.obs_timezone.some
                     ELSE /\ md.observation_time = Some("quake")
                          /\ md.obs_second = Some(IF last.qsec = <<>> THEN 0
                                                  ELSE FloatVal(last.qsec))
                          /\ md.obs_timezone = Some(ZoneStored(last.zone))

(***************************************************************************)
(* C25: after any sequence of item assignments on a Metadata object no key *)
(* of extras is the name of a known field, and get(key, default) on a      *)
(* known field other than filename and filepath gives the default when the *)
(* field is None and the field's value otherwise, also when that value is  *)
(* 0 or 0.0.                                                               *)
(***************************************************************************)
OptionalFields == KnownFieldNames \ {"filename", "filepath"}

GetIsFaithful(md, key, default, value) ==
    key \in OptionalFields =>
        /\ md.known[key] = PyNone => value = default
        /\ md.known[key] # PyNone => value = md.known[key]
        /\ md.known[key] \in {PyInt(0), PyFloat(0)} => value # default

C25_KnownFieldsAndExtras ==
    /\ (DOMAIN metadata.extras) \cap KnownFieldNames = {}
    /\ \A key \in OptionalFields, default \in MetadataDefaults :
          GetIsFaithful(metadata, key, default, Get(metadata, key, default))

C25_Witness ==
    /\ nsets = 2
    /\ metadata.known["obs_second"] = PyFloat(0)
    /\ DOMAIN metadata.extras = {"station_note"}
    /\ got = [key |-> "obs_second", default |-> PyInt(7), value |-> PyFloat(0)]

(***************************************************************************)
(* C26: when start_conversion is called again while a convert_files thread *)
(* is running, no path (split file or derived output file) is open for     *)
(* writing in two threads at once.                                         *)
(***************************************************************************)
C26_WritesSerialized ==
    \A a \in openFiles, b \in openFiles : a[1] = b[1] => a[2] = b[2]

(***************************************************************************)
(* C27: when a batch over files of pairwise distinct names has completed,  *)
(* the output files channel_<NNN>.<format> it has written are as many as   *)
(* the conversions it counts as successful: no two converted records of    *)
(* the run have the same output file.                                      *)
(***************************************************************************)
DistinctNames ==
    \A i, j \in 1..Len(v2_files) : i # j => v2_files[i].name # v2_files[j].name

\* the channel numbers in the names of the output files written by the run
OutputFiles ==
    UNION {{log[i].written[j].channel : j \in 1..Len(log[i].written)} :
              i \in 1..Len(log)}

C27_OneOutputPerRecord ==
    (Completed /\ DistinctNames) => Cardinality(OutputFiles) = success_count

(***************************************************************************)
(* C28: on every file on which CESMDConverter.parse_v2_file of a new       *)
(* instance returns True, parser.parse_v2_file returns a record with the   *)
(* same acceleration, velocity, displacement and time, and with the same   *)
(* value in every metadata field that the converter has set.               *)
(***************************************************************************)
C28_BroaderRefinesNarrower ==
    (op = "both" /\ ret = "True") =>
        /\ record.status = "record"
        /\ record.acceleration = self.acceleration
        /\ record.velocity = self.velocity
        /\ record.displacement = self.displacement
        /\ record.time = self.time_array
        /\ \A k \in DOMAIN MetaInit :
              self.metadata[k].some => record.metadata[k] = self.metadata[k]

====
